---- MODULE Spec2Model ----
(***************************************************************************)
(* Message bridge between IBM MQ and KubeMQ: the retry wrapper, the        *)
(* binding (start / poll / callback / send / stop) and the binding health  *)
(* query, modelled from the Python sources.                                *)
(***************************************************************************)
EXTENDS Integers, Sequences, FiniteSets, TLC

\* ------------------------------------------------------------------ bounds
MaxRetries == 3      \* largest max_retries drawn for a RetryWrapper
MaxDelay == 2        \* largest delay_seconds drawn for a RetryWrapper
MaxMsgs == 2         \* messages waiting on the source queue at the start
MaxDeliveries == 3   \* deliveries (first ones and redeliveries) the source broker makes
BindMaxRetries == 2  \* largest retry.max_retries drawn for a binding
MaxPollCalls == 2    \* poll() calls made on one endpoint
MaxCeiling == 2      \* largest max_reconnect_attempts drawn
MaxReconnects == 4   \* reconnect attempts one poll loop makes

VARIABLES
  \* --- RetryWrapper.__call__.wrapper (src/src/bindings/retry.py)
  rw_max_retries,     \* self.max_retries
  rw_delay_seconds,   \* self.delay_seconds
  rw_opFails,         \* the wrapped operation: invocation i raises iff rw_opFails[i]
  rw_pc,              \* "loop" | "sleeping" | "returned" | "raised" | "fallthrough"
  rw_attempt,         \* the loop variable attempt
  rw_invocations,     \* number of times func was awaited
  rw_sleeps,          \* number of asyncio.sleep calls made
  rw_slept,           \* total seconds slept
  rw_last_exception,  \* 0 = None, else the invocation whose error is held
  rw_raised,          \* 0 = nothing raised, else the invocation whose error left the wrapper
  \* --- one Binding with its two endpoints (src/src/bindings/binding.py,
  \*     src/src/kubemq/client.py, src/src/ibm_mq/client.py)
  b_type,             \* config.type: the binding's direction tag
  b_disable_retry,    \* config.retry.disable_retry
  b_max_retries,      \* config.retry.max_retries
  b_pc,               \* where the task running Binding.start / Binding.stop is
  b_trace,            \* the endpoint calls Binding.start / stop has made, in order
  src_connected,      \* source.is_connected
  tgt_connected,      \* target.is_connected
  is_polling,         \* source.is_polling
  stop_event,         \* source.stop_event (KubeMQ sets should_stop_polling with it)
  connection_broken,  \* IBMMQClient.poll._process: local connection_broken
  pollPc,             \* the source's poll task: where it is suspended, or how it ended
  cur,                \* the message the poll task is processing (0: none)
  cbPc,               \* where the awaited callback is suspended ("idle": not in it)
  cb_attempt,         \* RetryWrapper's attempt for the current message
  cb_sendCalls,       \* calls of target.send_message made for the current message
  cb_caught,          \* the callback_error the poll loop caught for the current message
  lastSendError,      \* the error the latest target.send_message call raised
  msgState,           \* source broker, per message: "queued" | "inflight" | "removed"
  cbOutcome,          \* per message, latest delivery: "none" | "pending" | "ok" | "raised"
  dispIssued,         \* per message, latest delivery: "none" | "ack" | "reject"
  deliveries,         \* messages handed out by the source broker so far
  sendTask,           \* KubeMQ target, per message: the background _send_message task
  sendThread,         \* KubeMQ target, per message: the worker thread's broker call
  orphanPut,          \* IBM target: message of a put left running by a cancelled task
  tgtLog,             \* payloads the target broker accepted, in order
  noErrors,           \* no receive, send, ack or connection error has happened so far
  \* --- one call of Binding.is_healthy (src/src/bindings/binding.py)
  h_source,           \* self.source is set (not None)
  h_target,           \* self.target is set (not None)
  h_src_health,       \* what source.is_healthy() answers now: "true" | "false" | "raise"
  h_tgt_health,       \* what target.is_healthy() answers now
  h_pc,               \* "source" | "target" | "returned" | "idle"
  h_source_healthy,   \* local source_healthy
  h_src_seen,         \* the answer the source's query gave ("none": not queried)
  h_tgt_seen,         \* the answer the target's query gave ("none": not queried)
  h_result,           \* what the call returned: "none" | "true" | "false"
  h_escaped,          \* an exception left the call
  \* --- Bindings.start over all bindings (src/src/bindings/bindings.py)
  sup_outcome,        \* per binding, what its endpoints will do when started
  sup_binding,        \* per binding: "not_started" | "scheduled" | "polling" | "failed"
  sup_ready,          \* the event loop's ready queue, oldest first
  sup_outer,          \* the gather future: "none" | "pending" | "result" | "exception"
  sup_nfinished,      \* gather: children finished without an exception
  sup_pc,             \* Bindings.start: "idle" | "awaiting" | "returned" | "raised"
  \* --- BindingsConfig.load and Bindings.init (src/src/bindings/config.py, bindings.py)
  cfg_list,           \* the bindings of the configuration file, in order
  cfg_pc,             \* "unloaded" | "loaded" | "load_failed" | "initialised" | "init_failed"
  cfg_built,          \* names of the Binding objects appended to self.bindings
  \* --- one endpoint client (src/src/ibm_mq/client.py, src/src/kubemq/client.py)
  e_kind,             \* "ibm" (IBMMQClient) | "kubemq" (KubeMQClient)
  e_is_connected,     \* self.is_connected
  e_state,            \* self.metrics.connection_state, the recorded connection state
  e_session,          \* the client holds a broker handle (queue_manager / client)
  e_changes,          \* changes <<from, to>> of e_state made by the latest step
  e_is_polling,       \* self.is_polling
  e_stop_event,       \* self.stop_event (and should_stop_polling, set with it)
  e_poll,             \* per poll() call, where its _process task stands
  e_broken,           \* per poll task, its local connection_broken
  e_monitor,          \* health_check_task / heartbeat_task: "none" | "sleeping" | "done"
  e_start,            \* start(): "not_called" | "returned" | "raised"
  e_stop_pc,          \* stop(): "idle" | "await_health" | "await_heartbeat" | "await_tasks"
  e_stop_log,         \* <<is_connected, recorded state>> at each return of stop()
  e_send,             \* the send_message call: its position and what it has done
  e_reconnect_tasks,  \* _reconnect tasks created by the monitor tasks
  e_mode_valid,       \* config.receiver_mode names a receiver strategy
  \* --- IBMMQClient._reconnect seen from the poll loop (src/src/ibm_mq/client.py)
  rc_max,                \* self.max_reconnect_attempts
  rc_reconnect_attempts, \* self.reconnect_attempts
  rc_attempts_total,     \* metrics.reconnection_attempts_total
  rc_failures_total,     \* metrics.reconnection_failures_total
  rc_is_connected,       \* self.is_connected
  rc_stop_event,         \* self.stop_event
  rc_broken,             \* the poll loop's connection_broken
  rc_pc,                 \* the poll loop: "receiving" | "backoff" | "done"
  rc_made,               \* reconnect attempts made so far
  rc_failed,             \* reconnect attempts that failed so far
  rc_streak,             \* failed reconnect attempts since the last connected moment
  rc_stop_requested,     \* stop() was called
  \* metrics collectors
  m_coll,                \* binding -> side -> MetricsCollector fields
  m_clock,               \* what time.time() returns now
  m_binding_collectors,  \* SystemMetricsCollector.binding_collectors: name -> collector
  m_ops,                 \* operations made so far
  \* IBM MQ endpoint: the attempt counter and its callers
  ra_max,                \* self.max_reconnect_attempts
  ra_reconnect_attempts, \* self.reconnect_attempts
  ra_is_connected,       \* self.is_connected
  ra_stop_event,         \* self.stop_event.is_set()
  ra_pc,                 \* caller -> "idle" | "created" | "backoff"
  ra_since,              \* calls of _reconnect that counted since the last connected moment
  \* AtomicCounter (src/src/utils/counter.py)
  ct_initial,            \* the constructor's initial_value
  ct_state,              \* "constructed" | "raised": how __init__ ended
  ct_value,              \* self._value
  ct_lock,               \* self._lock: "free" or the thread holding it
  ct_thr,                \* thread -> its call: pc, arguments, locals, result
  ct_expected,           \* the last reset value plus the amounts stored since
  ct_ops,                \* calls made so far
  \* KubeMQ endpoint: the tracked tasks (src/src/kubemq/client.py)
  tk_is_connected,       \* self.is_connected
  tk_task,               \* send task -> "none" | "created" | "in_thread" | "done" | "cancelled"
  tk_thread,             \* send task -> its to_thread call: "none" | "running" | "finished"
  tk_tasks,              \* self._tasks
  tk_cancel_requested,   \* the tasks stop() called cancel() on
  tk_pending_tasks,      \* stop()'s local pending_tasks
  tk_stop_pc             \* stop(): "idle" | "gathering" | "returned"

retryVars == <<rw_max_retries, rw_delay_seconds, rw_opFails, rw_pc, rw_attempt,
               rw_invocations, rw_sleeps, rw_slept, rw_last_exception, rw_raised>>

vars == <<rw_max_retries, rw_delay_seconds, rw_opFails, rw_pc, rw_attempt,
          rw_invocations, rw_sleeps, rw_slept, rw_last_exception, rw_raised,
          b_type, b_disable_retry, b_max_retries, b_pc, b_trace, src_connected,
          tgt_connected, is_polling, stop_event, connection_broken, pollPc, cur,
          cbPc, cb_attempt, cb_sendCalls, cb_caught, lastSendError, msgState,
          cbOutcome, dispIssued, deliveries, sendTask, sendThread, orphanPut,
          tgtLog, noErrors,
          h_source, h_target, h_src_health, h_tgt_health, h_pc, h_source_healthy,
          h_src_seen, h_tgt_seen, h_result, h_escaped,
          sup_outcome, sup_binding, sup_ready, sup_outer, sup_nfinished, sup_pc,
          cfg_list, cfg_pc, cfg_built,
          e_kind, e_is_connected, e_state, e_session, e_changes, e_is_polling,
          e_stop_event, e_poll, e_broken, e_monitor, e_start, e_stop_pc,
          e_stop_log, e_send, e_reconnect_tasks, e_mode_valid,
          rc_max, rc_reconnect_attempts, rc_attempts_total, rc_failures_total, rc_is_connected, rc_stop_event, rc_broken, rc_pc, rc_made, rc_failed, rc_streak, rc_stop_requested,
          m_coll, m_clock, m_binding_collectors, m_ops,
          ra_max, ra_reconnect_attempts, ra_is_connected, ra_stop_event, ra_pc, ra_since,
          ct_initial, ct_state, ct_value, ct_lock, ct_thr, ct_expected, ct_ops,
          tk_is_connected, tk_task, tk_thread, tk_tasks, tk_cancel_requested, tk_pending_tasks, tk_stop_pc>>

endVars == <<e_kind, e_is_connected, e_state, e_session, e_changes, e_is_polling,
             e_stop_event, e_poll, e_broken, e_monitor, e_start, e_stop_pc,
             e_stop_log, e_send, e_reconnect_tasks, e_mode_valid>>

supVars == <<sup_outcome, sup_binding, sup_ready, sup_outer, sup_nfinished, sup_pc>>

cfgVars == <<cfg_list, cfg_pc, cfg_built>>

healthVars == <<h_source, h_target, h_src_health, h_tgt_health, h_pc,
                h_source_healthy, h_src_seen, h_tgt_seen, h_result, h_escaped>>

bindVars == <<b_type, b_disable_retry, b_max_retries, b_pc, b_trace, src_connected,
              tgt_connected, is_polling, stop_event, connection_broken, pollPc, cur,
              cbPc, cb_attempt, cb_sendCalls, cb_caught, lastSendError, msgState,
              cbOutcome, dispIssued, deliveries, sendTask, sendThread, orphanPut,
              tgtLog, noErrors>>

recVars == <<rc_max, rc_reconnect_attempts, rc_attempts_total, rc_failures_total,
             rc_is_connected, rc_stop_event, rc_broken, rc_pc, rc_made, rc_failed,
             rc_streak, rc_stop_requested>>

metVars == <<m_coll, m_clock, m_binding_collectors, m_ops>>

attVars == <<ra_max, ra_reconnect_attempts, ra_is_connected, ra_stop_event, ra_pc, ra_since>>

ctrVars == <<ct_initial, ct_state, ct_value, ct_lock, ct_thr, ct_expected, ct_ops>>

taskVars == <<tk_is_connected, tk_task, tk_thread, tk_tasks, tk_cancel_requested, tk_pending_tasks, tk_stop_pc>>

nonBindVars == <<retryVars, healthVars, supVars, cfgVars, endVars, recVars, metVars, attVars, ctrVars, taskVars>>

nonRetryVars == <<bindVars, healthVars, supVars, cfgVars, endVars, recVars, metVars, attVars, ctrVars, taskVars>>

nonHealthVars == <<retryVars, bindVars, supVars, cfgVars, endVars, recVars, metVars, attVars, ctrVars, taskVars>>

nonSupVars == <<retryVars, bindVars, healthVars, cfgVars, endVars, recVars, metVars, attVars, ctrVars, taskVars>>

nonCfgVars == <<retryVars, bindVars, healthVars, supVars, endVars, recVars, metVars, attVars, ctrVars, taskVars>>

nonEndVars == <<retryVars, bindVars, healthVars, supVars, cfgVars, recVars, metVars, attVars, ctrVars, taskVars>>

nonRecVars == <<retryVars, bindVars, healthVars, supVars, cfgVars, endVars, metVars, attVars, ctrVars, taskVars>>


nonMetVars == <<retryVars, bindVars, healthVars, supVars, cfgVars, endVars, recVars, attVars, ctrVars, taskVars>>

nonAttVars == <<retryVars, bindVars, healthVars, supVars, cfgVars, endVars, recVars, metVars, ctrVars, taskVars>>

nonCtrVars == <<retryVars, bindVars, healthVars, supVars, cfgVars, endVars, recVars, metVars, attVars, taskVars>>

nonTaskVars == <<retryVars, bindVars, healthVars, supVars, cfgVars, endVars, recVars, metVars, attVars, ctrVars>>

\* ------------------------------------------------- faulty variants
\* Wrong versions of some of the definitions below. Each property that is
\* established for the code is also shown to fail for the variant it names.

\* retry.py:24 with the test one attempt too early
RetryGivesUpEarly(attempt, max_retries) == attempt + 1 >= max_retries

\* retry.py:24 with > for >=
RetryGivesUpLate(attempt, max_retries) == attempt > max_retries

\* binding.py:103 ignoring disable_retry
AlwaysWrapped(disable_retry) == TRUE

\* binding.py:99-100 with the two awaits swapped
SourceFirstOrder == <<"source", "target">>

\* bindings.py:76-77 leaving the last binding out of the tasks
GatherArgsButLast(n) == [i \in 1..(n - 1) |-> i]

\* binding.py:138 with `or` for `and`
EitherHealthy(source_healthy, target_healthy) == source_healthy \/ target_healthy

\* ------------------------------------------------------------ RetryWrapper

\* retry.py:18  for attempt in range(1, self.max_retries + 1): is there another turn
RetryLoopHasTurn(attempt, max_retries) == attempt <= max_retries

\* retry.py:24  if attempt >= self.max_retries: raise e   (else sleep and loop)
RetryGivesUp(attempt, max_retries) == attempt >= max_retries

\* The failure patterns of the wrapped operation: one flag per invocation.
FailPatterns == [1..(MaxRetries + 1) -> BOOLEAN]

\* k of "fails k times and then succeeds": the number of leading failures.
LeadingFailures(p) ==
  IF \A i \in DOMAIN p : p[i] THEN Len(p)
  ELSE (CHOOSE i \in DOMAIN p : ~p[i] /\ \A j \in 1..(i - 1) : p[j]) - 1

RetryInit ==
  /\ rw_max_retries \in 1..MaxRetries
  /\ rw_delay_seconds \in 0..MaxDelay
  /\ rw_opFails \in FailPatterns
  /\ rw_pc = "loop"
  /\ rw_attempt = 1
  /\ rw_invocations = 0
  /\ rw_sleeps = 0
  /\ rw_slept = 0
  /\ rw_last_exception = 0
  /\ rw_raised = 0

\* retry.py:18-30  one turn of the loop: await func; on an exception keep it and
\* either raise it (last attempt) or go to sleep.
RetryAttempt ==
  /\ rw_pc = "loop"
  /\ RetryLoopHasTurn(rw_attempt, rw_max_retries)
  /\ rw_invocations' = rw_invocations + 1
  /\ IF rw_opFails[rw_invocations + 1]
       THEN /\ rw_last_exception' = rw_invocations + 1
            /\ IF RetryGivesUp(rw_attempt, rw_max_retries)
                 THEN rw_pc' = "raised" /\ rw_raised' = rw_invocations + 1
                 ELSE rw_pc' = "sleeping" /\ rw_raised' = rw_raised
       ELSE /\ rw_pc' = "returned"
            /\ UNCHANGED <<rw_last_exception, rw_raised>>
  /\ UNCHANGED <<rw_max_retries, rw_delay_seconds, rw_opFails, rw_attempt,
                 rw_sleeps, rw_slept>>
  /\ UNCHANGED nonRetryVars

\* retry.py:39  await asyncio.sleep(self.delay_seconds), then the next turn;
\* retry.py:41-43  when the range is exhausted the wrapper raises last_exception.
RetrySleep ==
  /\ rw_pc = "sleeping"
  /\ rw_sleeps' = rw_sleeps + 1
  /\ rw_slept' = rw_slept + rw_delay_seconds
  /\ rw_attempt' = rw_attempt + 1
  /\ IF RetryLoopHasTurn(rw_attempt + 1, rw_max_retries)
       THEN rw_pc' = "loop" /\ rw_raised' = rw_raised
       ELSE rw_pc' = "fallthrough" /\ rw_raised' = rw_last_exception
  /\ UNCHANGED <<rw_max_retries, rw_delay_seconds, rw_opFails, rw_invocations,
                 rw_last_exception>>
  /\ UNCHANGED nonRetryVars

RetryNext == RetryAttempt \/ RetrySleep

\* ----------------------------------------------------------------- Binding

\* bindings/binding.py:29-74  the three direction tags Binding.init accepts
BindingTypes == {"ibm_mq_to_kubemq", "kubemq_to_ibm_mq", "kubemq_to_kubemq"}

\* binding.py:29-72  the client class Binding.init picks for the source
SourceKind(type) == IF type = "ibm_mq_to_kubemq" THEN "ibm" ELSE "kubemq"

\* binding.py:29-72  the client class Binding.init picks for the target
TargetKind(type) == IF type = "kubemq_to_ibm_mq" THEN "ibm" ELSE "kubemq"

Msgs == 1..MaxMsgs

\* An error value: the target.send_message call that raised it, and what it was.
NoError == [call |-> 0, kind |-> "none"]

\* The binding's state as one record, so that the steps a task runs between two
\* suspension points compose as functions of it.
B ==
  [b_type |-> b_type, b_disable_retry |-> b_disable_retry,
   b_max_retries |-> b_max_retries, b_pc |-> b_pc, b_trace |-> b_trace,
   src_connected |-> src_connected, tgt_connected |-> tgt_connected,
   is_polling |-> is_polling, stop_event |-> stop_event,
   connection_broken |-> connection_broken, pollPc |-> pollPc, cur |-> cur,
   cbPc |-> cbPc, cb_attempt |-> cb_attempt, cb_sendCalls |-> cb_sendCalls,
   cb_caught |-> cb_caught, lastSendError |-> lastSendError, msgState |-> msgState,
   cbOutcome |-> cbOutcome, dispIssued |-> dispIssued, deliveries |-> deliveries,
   sendTask |-> sendTask, sendThread |-> sendThread, orphanPut |-> orphanPut,
   tgtLog |-> tgtLog, noErrors |-> noErrors]

Becomes(s) ==
  /\ b_type' = s.b_type /\ b_disable_retry' = s.b_disable_retry
  /\ b_max_retries' = s.b_max_retries /\ b_pc' = s.b_pc /\ b_trace' = s.b_trace
  /\ src_connected' = s.src_connected /\ tgt_connected' = s.tgt_connected
  /\ is_polling' = s.is_polling /\ stop_event' = s.stop_event
  /\ connection_broken' = s.connection_broken /\ pollPc' = s.pollPc /\ cur' = s.cur
  /\ cbPc' = s.cbPc /\ cb_attempt' = s.cb_attempt /\ cb_sendCalls' = s.cb_sendCalls
  /\ cb_caught' = s.cb_caught /\ lastSendError' = s.lastSendError
  /\ msgState' = s.msgState /\ cbOutcome' = s.cbOutcome /\ dispIssued' = s.dispIssued
  /\ deliveries' = s.deliveries /\ sendTask' = s.sendTask
  /\ sendThread' = s.sendThread /\ orphanPut' = s.orphanPut /\ tgtLog' = s.tgtLog
  /\ noErrors' = s.noErrors

\* kubemq/client.py:289 `while self.is_polling and not self.should_stop_polling and
\* not self.stop_event.is_set()` and :395; ibm_mq/client.py:391-396 `while not
\* self.stop_event.is_set()`, then `if not self.is_connected or connection_broken:
\* await self._reconnect()` (:276-300, up to its sleep), and :518.
\* The head of the poll loop, up to the task's next suspension point.
LoopHead(s) ==
  IF s.stop_event
    THEN [s EXCEPT !.pollPc = "done", !.is_polling = FALSE]
    ELSE IF SourceKind(s.b_type) = "ibm" /\ (~s.src_connected \/ s.connection_broken)
      THEN [s EXCEPT !.pollPc = "reconnecting", !.src_connected = FALSE]
      ELSE [s EXCEPT !.pollPc = "receiving"]

\* kubemq/client.py:330-374 and ibm_mq/client.py:430-448  what the poll loop does
\* when `await callback(...)` has returned (ok) or raised err: the KubeMQ source
\* acks or rejects the message (ackOk: the broker call did not raise), the IBM MQ
\* source issues nothing (its get has already removed the message).
FinishCallback(s, ok, err, ackOk) ==
  LET m == s.cur
      s1 == [s EXCEPT !.cbOutcome[m] = IF ok THEN "ok" ELSE "raised",
                      !.cb_caught = IF ok THEN NoError ELSE err,
                      !.cbPc = "idle", !.cur = 0,
                      !.noErrors = @ /\ ok]
  IN IF SourceKind(s.b_type) = "kubemq"
       THEN LET s2 == [s1 EXCEPT !.dispIssued[m] = IF ok THEN "ack" ELSE "reject"]
            IN IF ackOk
                 THEN LoopHead([s2 EXCEPT !.msgState[m] =
                                            IF ok THEN "removed" ELSE "queued"])
                 ELSE [s2 EXCEPT !.pollPc = "sleeping", !.noErrors = FALSE]
       ELSE LoopHead(s1)

\* binding.py:103  `if not self.config.retry.disable_retry:` the callback handed to
\* source.poll is the RetryWrapper-decorated send, else target.send_message itself.
UsesRetryWrapper(disable_retry) == ~disable_retry

\* binding.py:111-117 with retry.py:18-39: target.send_message raised err inside
\* the callback. Without the wrapper the error leaves the callback at once; with
\* it, it leaves on the last attempt, else the wrapper sleeps.
OnSendRaised(s, err, ackOk) ==
  LET s1 == [s EXCEPT !.lastSendError = err, !.noErrors = FALSE]
  IN IF ~UsesRetryWrapper(s.b_disable_retry)
          \/ RetryGivesUp(s.cb_attempt, s.b_max_retries)
       THEN FinishCallback(s1, FALSE, err, ackOk)
       ELSE [s1 EXCEPT !.pollPc = "callback_wait", !.cbPc = "retry_sleep"]

\* kubemq/client.py:419-473 and ibm_mq/client.py:537-551: one call of
\* target.send_message, up to its first suspension point. The KubeMQ target raises
\* when not connected, else creates the background task and returns. The IBM MQ
\* target reconnects when not connected, else probes the session (probeOk) and
\* either starts the put on a worker thread or disconnects and reconnects.
SendInvoke(s, probeOk, ackOk) ==
  LET n == s.cb_sendCalls + 1
      s1 == [s EXCEPT !.cb_sendCalls = n]
  IN IF TargetKind(s.b_type) = "kubemq"
       THEN IF ~s.tgt_connected
              THEN OnSendRaised(s1, [call |-> n, kind |-> "not_connected"], ackOk)
              ELSE FinishCallback([s1 EXCEPT !.sendTask[s.cur] = "created"],
                                  TRUE, NoError, ackOk)
       ELSE IF ~s.tgt_connected
              THEN [s1 EXCEPT !.pollPc = "callback_wait", !.cbPc = "ibm_reconnect_1"]
              ELSE IF probeOk
                     THEN [s1 EXCEPT !.pollPc = "callback_wait", !.cbPc = "ibm_put"]
                     ELSE [s1 EXCEPT !.pollPc = "callback_wait",
                                     !.cbPc = "ibm_reconnect_2",
                                     !.tgt_connected = FALSE, !.noErrors = FALSE]

\* binding.py:99-100  the order in which Binding.start starts the two endpoints
StartOrder == <<"target", "source">>

\* binding.py:125-126  the order in which Binding.stop stops the two endpoints
StopOrder == <<"source", "target">>

BindingInit ==
  /\ b_type \in BindingTypes
  /\ b_disable_retry \in BOOLEAN
  /\ b_max_retries \in 1..BindMaxRetries
  /\ b_pc = "idle"
  /\ b_trace = <<>>
  /\ src_connected = FALSE /\ tgt_connected = FALSE
  /\ is_polling = FALSE /\ stop_event = FALSE /\ connection_broken = FALSE
  /\ pollPc = "none" /\ cur = 0 /\ cbPc = "idle"
  /\ cb_attempt = 0 /\ cb_sendCalls = 0
  /\ cb_caught = NoError /\ lastSendError = NoError
  /\ msgState = [m \in Msgs |-> "queued"]
  /\ cbOutcome = [m \in Msgs |-> "none"]
  /\ dispIssued = [m \in Msgs |-> "none"]
  /\ deliveries = 0
  /\ sendTask = [m \in Msgs |-> "none"]
  /\ sendThread = [m \in Msgs |-> "none"]
  /\ orphanPut = 0
  /\ tgtLog = <<>>
  /\ noErrors = TRUE

\* The binding's variables when the binding is not part of the specification.
BindingIdle ==
  /\ b_type = "kubemq_to_kubemq" /\ b_disable_retry = FALSE /\ b_max_retries = 1
  /\ b_pc = "idle" /\ b_trace = <<>>
  /\ src_connected = FALSE /\ tgt_connected = FALSE
  /\ is_polling = FALSE /\ stop_event = FALSE /\ connection_broken = FALSE
  /\ pollPc = "none" /\ cur = 0 /\ cbPc = "idle"
  /\ cb_attempt = 0 /\ cb_sendCalls = 0
  /\ cb_caught = NoError /\ lastSendError = NoError
  /\ msgState = [m \in Msgs |-> "queued"]
  /\ cbOutcome = [m \in Msgs |-> "none"]
  /\ dispIssued = [m \in Msgs |-> "none"]
  /\ deliveries = 0
  /\ sendTask = [m \in Msgs |-> "none"]
  /\ sendThread = [m \in Msgs |-> "none"]
  /\ orphanPut = 0 /\ tgtLog = <<>> /\ noErrors = TRUE

\* kubemq/client.py:136-147,179-212 and ibm_mq/client.py:103-120,150-238
\* endpoint.start(): _connect either sets is_connected or raises.
StartEndpoint(s, e, ok) ==
  LET s1 == [s EXCEPT !.b_trace = Append(@, e \o ".start")]
  IN IF ok
       THEN [s1 EXCEPT !.b_trace = Append(@, e \o ".started"),
                       !.src_connected = IF e = "source" THEN TRUE ELSE @,
                       !.tgt_connected = IF e = "target" THEN TRUE ELSE @]
       ELSE [s1 EXCEPT !.b_trace = Append(@, e \o ".start_raised"),
                       !.b_pc = "start_failed"]

\* binding.py:99  Binding.start awaits the start of the first endpoint; when that
\* raises, Binding.start raises.
BindingStartFirst ==
  /\ b_pc = "idle"
  /\ \E ok \in BOOLEAN :
       LET s == StartEndpoint(B, StartOrder[1], ok)
       IN Becomes(IF ok THEN [s EXCEPT !.b_pc = "first_started"] ELSE s)
  /\ UNCHANGED nonBindVars

\* binding.py:100  then the start of the second endpoint.
BindingStartSecond ==
  /\ b_pc = "first_started"
  /\ \E ok \in BOOLEAN :
       LET s == StartEndpoint(B, StartOrder[2], ok)
       IN Becomes(IF ok THEN [s EXCEPT !.b_pc = "both_started"] ELSE s)
  /\ UNCHANGED nonBindVars

\* binding.py:102-122 with kubemq/client.py:270-275,398-399 and
\* ibm_mq/client.py:365-367,521-522  source.poll(callback): raises when the source
\* is not connected, else creates the poll task and returns; Binding.start returns.
BindingStartPoll ==
  /\ b_pc = "both_started"
  /\ Becomes(IF src_connected
               THEN [B EXCEPT !.b_trace = Append(@, "source.poll"),
                              !.pollPc = "created", !.b_pc = "running"]
               ELSE [B EXCEPT !.b_trace = Append(@, "source.poll_raised"),
                              !.b_pc = "start_failed"])
  /\ UNCHANGED nonBindVars

\* kubemq/client.py:286-297 and ibm_mq/client.py:381-415  the poll task's first
\* run: is_polling = True, then the loop head.
PollTaskStart ==
  /\ pollPc = "created"
  /\ Becomes(LoopHead([B EXCEPT !.is_polling = TRUE]))
  /\ UNCHANGED nonBindVars

\* kubemq/client.py:131,297  the event loop runs ready tasks in the order they
\* became ready: a background send task created during the callback has had its
\* first run by the time the poll task's receive, awaited after it, resumes.
NoSendTaskReady == \A m \in Msgs : sendTask[m] # "created"

\* The message the source broker hands out next: the first one waiting.
NextQueued(s) == CHOOSE m \in Msgs :
  s.msgState[m] = "queued" /\ \A k \in Msgs : s.msgState[k] = "queued" => m <= k

\* kubemq/client.py:292-329 and ibm_mq/client.py:415-429  the receive returns a
\* message: KubeMQ leaves it in flight until ack or reject; the IBM MQ get (no
\* syncpoint option in gmo.Options, :402) removes it from the queue. The poll loop
\* awaits the callback with it.
PollReceiveMessage ==
  /\ pollPc = "receiving"
  /\ NoSendTaskReady
  /\ deliveries < MaxDeliveries
  /\ \E m \in Msgs : msgState[m] = "queued"
  /\ \E probeOk \in BOOLEAN, ackOk \in BOOLEAN :
       LET m == NextQueued(B)
           s == [B EXCEPT !.cur = m, !.deliveries = @ + 1,
                          !.msgState[m] = IF SourceKind(b_type) = "ibm"
                                            THEN "removed" ELSE "inflight",
                          !.cbOutcome[m] = "pending", !.dispIssued[m] = "none",
                          !.cb_attempt = 1, !.cb_sendCalls = 0,
                          !.cb_caught = NoError]
       IN Becomes(SendInvoke(s, probeOk, ackOk))
  /\ UNCHANGED nonBindVars

\* kubemq/client.py:322-323  the KubeMQ receive returns no message: `continue`.
PollReceiveEmpty ==
  /\ pollPc = "receiving"
  /\ NoSendTaskReady
  /\ SourceKind(b_type) = "kubemq"
  /\ Becomes(LoopHead(B))
  /\ UNCHANGED nonBindVars

\* kubemq/client.py:300-320,376-393 (an error response or an exception) and
\* ibm_mq/client.py:455-459,484-492 (a Transient reason such as no message
\* available, or a Permanent / Configuration one): the loop sleeps and goes on.
PollReceiveWait ==
  /\ pollPc = "receiving"
  /\ NoSendTaskReady
  /\ \E isError \in BOOLEAN :
       /\ SourceKind(b_type) = "kubemq" => isError
       /\ Becomes([B EXCEPT !.pollPc = "sleeping", !.noErrors = @ /\ ~isError])
  /\ UNCHANGED nonBindVars

\* ibm_mq/client.py:461-482,494-504  the IBM MQ get fails with a Connection or
\* Shutdown reason (connection_broken, is_connected = False; Shutdown also sleeps)
\* or with an unexpected exception (the same, only when is_connected).
PollReceiveBroken ==
  /\ pollPc = "receiving"
  /\ NoSendTaskReady
  /\ SourceKind(b_type) = "ibm"
  /\ \E class \in {"connection", "shutdown", "unexpected"} :
       LET s == IF class = "unexpected" /\ ~src_connected
                  THEN [B EXCEPT !.noErrors = FALSE]
                  ELSE [B EXCEPT !.connection_broken = TRUE,
                                 !.src_connected = FALSE, !.noErrors = FALSE]
       IN Becomes(IF class = "shutdown"
                    THEN [s EXCEPT !.pollPc = "sleeping"]
                    ELSE LoopHead(s))
  /\ UNCHANGED nonBindVars

\* The sleep after an error or an idle receive ends: back to the loop head.
PollSleepDone ==
  /\ pollPc = "sleeping"
  /\ Becomes(LoopHead(B))
  /\ UNCHANGED nonBindVars

\* ibm_mq/client.py:300-312,393-397  _reconnect after its sleep: _connect succeeds
\* (connected, connection_broken = False, on to the receive) or fails
\* (disconnected, `continue`).
PollReconnectDone ==
  /\ pollPc = "reconnecting"
  /\ \E ok \in BOOLEAN :
       Becomes(IF ok
                 THEN [B EXCEPT !.src_connected = TRUE, !.connection_broken = FALSE,
                                !.pollPc = "receiving"]
                 ELSE LoopHead([B EXCEPT !.src_connected = FALSE,
                                         !.noErrors = FALSE]))
  /\ UNCHANGED nonBindVars

\* retry.py:18,39-43  the wrapper's sleep ends: the next attempt calls
\* target.send_message again; past the last turn it raises last_exception.
CallbackRetrySleepDone ==
  /\ pollPc = "callback_wait" /\ cbPc = "retry_sleep"
  /\ \E probeOk \in BOOLEAN, ackOk \in BOOLEAN :
       LET s == [B EXCEPT !.cb_attempt = @ + 1]
       IN Becomes(IF RetryLoopHasTurn(s.cb_attempt, s.b_max_retries)
                    THEN SendInvoke(s, probeOk, ackOk)
                    ELSE FinishCallback(s, FALSE, s.lastSendError, ackOk))
  /\ UNCHANGED nonBindVars

\* ibm_mq/client.py:538-551 with :300-312  the IBM MQ target's _reconnect ends.
\* Entered because the endpoint was not connected: on success the session is
\* probed (:545) and the put starts, or the probe fails and a second _reconnect
\* starts. Entered because the probe failed: on success the put starts. On
\* failure send_message raises.
IbmSendReconnectDone ==
  /\ pollPc = "callback_wait" /\ cbPc \in {"ibm_reconnect_1", "ibm_reconnect_2"}
  /\ \E ok \in BOOLEAN, probeOk \in BOOLEAN, ackOk \in BOOLEAN :
       Becomes(
         IF ~ok
           THEN OnSendRaised([B EXCEPT !.tgt_connected = FALSE],
                             [call |-> cb_sendCalls, kind |-> "reconnect_failed"],
                             ackOk)
           ELSE IF cbPc = "ibm_reconnect_2" \/ probeOk
             THEN [B EXCEPT !.tgt_connected = TRUE, !.cbPc = "ibm_put"]
             ELSE [B EXCEPT !.tgt_connected = FALSE, !.cbPc = "ibm_reconnect_2",
                            !.noErrors = FALSE])
  /\ UNCHANGED nonBindVars

\* ibm_mq/client.py:559-603  the put on the worker thread ends: the broker
\* accepted the payload and send_message returns, or it raised: an MQMIError
\* (classify_error is given the message text, :582, so never Connection or
\* Shutdown) or another exception (transition_to_disconnected); both re-raise.
IbmSendPutDone ==
  /\ pollPc = "callback_wait" /\ cbPc = "ibm_put"
  /\ \E result \in {"accepted", "mq_error", "unexpected"}, ackOk \in BOOLEAN :
       Becomes(
         IF result = "accepted"
           THEN FinishCallback([B EXCEPT !.tgtLog = Append(@, cur)],
                               TRUE, NoError, ackOk)
           ELSE OnSendRaised([B EXCEPT !.tgt_connected =
                                          IF result = "unexpected" THEN FALSE ELSE @],
                             [call |-> cb_sendCalls, kind |-> "put_failed"], ackOk))
  /\ UNCHANGED nonBindVars

\* kubemq/client.py:131-134,432-441  a background _send_message task gets its
\* first run and hands the broker call to a worker thread.
SendTaskStart(m) ==
  /\ sendTask[m] = "created"
  /\ sendTask' = [sendTask EXCEPT ![m] = "waiting"]
  /\ sendThread' = [sendThread EXCEPT ![m] = "running"]
  /\ UNCHANGED <<b_type, b_disable_retry, b_max_retries, b_pc, b_trace,
                 src_connected, tgt_connected, is_polling, stop_event,
                 connection_broken, pollPc, cur, cbPc, cb_attempt, cb_sendCalls,
                 cb_caught, lastSendError, msgState, cbOutcome, dispIssued,
                 deliveries, orphanPut, tgtLog, noErrors>>
  /\ UNCHANGED nonBindVars

\* kubemq/client.py:435-471  the worker thread's send_queues_message ends: the
\* broker accepted the payload, or the call failed (an error result or an
\* exception: logged and counted, never raised). A task still waiting for it ends.
SendThreadDone(m) ==
  /\ sendThread[m] = "running"
  /\ \E accepted \in BOOLEAN :
       /\ sendThread' = [sendThread EXCEPT ![m] = IF accepted THEN "sent" ELSE "failed"]
       /\ tgtLog' = IF accepted THEN Append(tgtLog, m) ELSE tgtLog
       /\ noErrors' = (noErrors /\ accepted)
  /\ sendTask' = [sendTask EXCEPT ![m] = IF @ = "waiting" THEN "done" ELSE @]
  /\ UNCHANGED <<b_type, b_disable_retry, b_max_retries, b_pc, b_trace,
                 src_connected, tgt_connected, is_polling, stop_event,
                 connection_broken, pollPc, cur, cbPc, cb_attempt, cb_sendCalls,
                 cb_caught, lastSendError, msgState, cbOutcome, dispIssued,
                 deliveries, orphanPut>>
  /\ UNCHANGED nonBindVars

\* ibm_mq/strategies.py:116  a put whose awaiting task was cancelled still runs
\* on its worker thread and ends there.
OrphanPutDone ==
  /\ orphanPut # 0
  /\ \E accepted \in BOOLEAN :
       Becomes([B EXCEPT !.orphanPut = 0,
                         !.tgtLog = IF accepted THEN Append(@, orphanPut) ELSE @])
  /\ UNCHANGED nonBindVars

\* kubemq/client.py:545-583  get_metrics on the KubeMQ target pings the server:
\* is_connected becomes the ping's outcome.
KubeTargetGetMetrics ==
  /\ b_pc \notin {"idle", "first_started", "both_started", "start_failed"}
  /\ TargetKind(b_type) = "kubemq"
  /\ \E pingOk \in BOOLEAN :
       Becomes([B EXCEPT !.tgt_connected = pingOk, !.noErrors = @ /\ pingOk])
  /\ UNCHANGED nonBindVars

\* The client class of endpoint e ("source" or "target") of the binding.
KindOf(s, e) == IF e = "source" THEN SourceKind(s.b_type) ELSE TargetKind(s.b_type)

PollTaskEnded(pc) == pc \in {"none", "done", "cancelled"}

\* kubemq/client.py:165-169  stop() cancels every tracked task that is not done:
\* the source's poll task, the target's background send tasks. A cancelled task
\* ends at the await it is suspended in; a worker thread it waits for runs on.
CancelTracked(s, e) ==
  IF e = "source"
    THEN [s EXCEPT !.pollPc = "cancelled", !.cbPc = "idle",
                   !.orphanPut = IF s.pollPc = "callback_wait" /\ s.cbPc = "ibm_put"
                                   THEN s.cur ELSE @]
    ELSE [s EXCEPT !.sendTask = [m \in Msgs |->
                     IF s.sendTask[m] \in {"created", "waiting"}
                       THEN "cancelled" ELSE s.sendTask[m]]]

\* kubemq/client.py:165  pending_tasks: is any tracked task of the endpoint not done
HasPendingTasks(s, e) ==
  IF e = "source"
    THEN ~PollTaskEnded(s.pollPc)
    ELSE \E m \in Msgs : s.sendTask[m] \in {"created", "waiting"}

\* kubemq/client.py:160-173 and ibm_mq/client.py:128-137  endpoint.stop() up to its
\* first await: set the stop event if polling; KubeMQ cancels its tracked tasks and
\* awaits them, IBM MQ cancels its health-check task and awaits it.
StopBegin(s, e) ==
  LET s1 == [s EXCEPT !.b_trace = Append(@, e \o ".stop"),
                      !.stop_event = IF e = "source" /\ s.is_polling THEN TRUE ELSE @]
  IN IF KindOf(s, e) = "ibm"
       THEN [s1 EXCEPT !.b_pc = e \o ".stop_hc"]
       ELSE IF HasPendingTasks(s1, e)
              THEN [CancelTracked(s1, e) EXCEPT !.b_pc = e \o ".stop_gather"]
              ELSE [s1 EXCEPT !.b_pc = e \o ".stop_disconnect"]

\* kubemq/client.py:175-177,214-245 and ibm_mq/client.py:147-148,249-274
\* the end of endpoint.stop(): _disconnect, is_connected = False.
StopDisconnect(s, e) ==
  [s EXCEPT !.b_trace = Append(@, e \o ".stopped"),
            !.src_connected = IF e = "source" THEN FALSE ELSE @,
            !.tgt_connected = IF e = "target" THEN FALSE ELSE @]

\* One endpoint's stop() from its disconnect on, and what Binding.stop does next
\* without suspending: the stop of the second endpoint, or its return.
RECURSIVE StopRun(_, _)
StopRun(s, e) ==
  LET s1 == IF s.b_pc = e \o ".stop_disconnect" THEN StopDisconnect(s, e) ELSE s
  IN IF s.b_pc # e \o ".stop_disconnect"
       THEN s
       ELSE IF e = StopOrder[1]
              THEN LET s2 == StopBegin(s1, StopOrder[2])
                   IN StopRun(s2, StopOrder[2])
              ELSE [s1 EXCEPT !.b_pc = "stopped"]

\* binding.py:124-126  Binding.stop is called (the daemon calls it on shutdown,
\* when the binding has been running): the first endpoint's stop().
BindingStop ==
  /\ b_pc = "running"
  /\ pollPc # "created"
  /\ LET s == StopBegin(B, StopOrder[1])
     IN Becomes(StopRun(s, StopOrder[1]))
  /\ UNCHANGED nonBindVars

\* ibm_mq/client.py:135-141  the cancelled health-check task has ended: stop()
\* cancels the heartbeat task and awaits it.
StopHealthCheckAwaited ==
  /\ \E e \in {"source", "target"} :
       /\ b_pc = e \o ".stop_hc"
       /\ Becomes([B EXCEPT !.b_pc = e \o ".stop_hb"])
  /\ UNCHANGED nonBindVars

\* ibm_mq/client.py:143-148 and kubemq/client.py:173-177  the awaited tasks have
\* ended: stop() disconnects and returns, and Binding.stop goes on.
StopTasksAwaited ==
  /\ \E e \in {"source", "target"} :
       /\ b_pc \in {e \o ".stop_hb", e \o ".stop_gather"}
       /\ Becomes(StopRun([B EXCEPT !.b_pc = e \o ".stop_disconnect"], e))
  /\ UNCHANGED nonBindVars

BindingNext ==
  \/ BindingStartFirst \/ BindingStartSecond \/ BindingStartPoll
  \/ PollTaskStart \/ PollReceiveMessage \/ PollReceiveEmpty \/ PollReceiveWait
  \/ PollReceiveBroken \/ PollSleepDone \/ PollReconnectDone
  \/ CallbackRetrySleepDone \/ IbmSendReconnectDone \/ IbmSendPutDone
  \/ (\E m \in Msgs : SendTaskStart(m))
  \/ (\E m \in Msgs : SendThreadDone(m))
  \/ OrphanPutDone \/ KubeTargetGetMetrics
  \/ BindingStop \/ StopHealthCheckAwaited \/ StopTasksAwaited

\* The wrapper's variables when the wrapper is not part of the specification.
RetryIdle ==
  /\ rw_max_retries = 1 /\ rw_delay_seconds = 0
  /\ rw_opFails = [i \in 1..(MaxRetries + 1) |-> FALSE]
  /\ rw_pc = "idle" /\ rw_attempt = 1 /\ rw_invocations = 0
  /\ rw_sleeps = 0 /\ rw_slept = 0 /\ rw_last_exception = 0 /\ rw_raised = 0

\* ------------------------------------------------------ Binding.is_healthy

HealthAnswers == {"true", "false", "raise"}

\* binding.py:135,136  `await e.is_healthy() if e else False`: the value an
\* endpoint contributes, given whether it is set and what its query answered.
EndpointHealthy(present, answer) == IF present THEN answer = "true" ELSE FALSE

\* binding.py:138  return source_healthy and target_healthy
BothHealthy(source_healthy, target_healthy) == source_healthy /\ target_healthy

\* binding.py:139-141  except Exception: log and return False
HealthOnException == "false"

HealthInit ==
  /\ h_source \in BOOLEAN /\ h_target \in BOOLEAN
  /\ h_src_health \in HealthAnswers /\ h_tgt_health \in HealthAnswers
  /\ h_pc = "source" /\ h_source_healthy = FALSE
  /\ h_src_seen = "none" /\ h_tgt_seen = "none"
  /\ h_result = "none" /\ h_escaped = FALSE

\* The health call's variables when it is not part of the specification.
HealthIdle ==
  /\ h_source = FALSE /\ h_target = FALSE
  /\ h_src_health = "false" /\ h_tgt_health = "false"
  /\ h_pc = "idle" /\ h_source_healthy = FALSE
  /\ h_src_seen = "none" /\ h_tgt_seen = "none"
  /\ h_result = "none" /\ h_escaped = FALSE

\* binding.py:134-135,139-141  the first statement of the try block: the source's
\* query, when the source is set; its exception ends the call with False.
HealthQuerySource ==
  /\ h_pc = "source"
  /\ h_src_seen' = IF h_source THEN h_src_health ELSE "none"
  /\ IF h_source /\ h_src_health = "raise"
       THEN /\ h_result' = HealthOnException /\ h_pc' = "returned"
            /\ UNCHANGED h_source_healthy
       ELSE /\ h_source_healthy' = EndpointHealthy(h_source, h_src_health)
            /\ h_pc' = "target"
            /\ UNCHANGED h_result
  /\ UNCHANGED <<h_source, h_target, h_src_health, h_tgt_health, h_tgt_seen, h_escaped>>
  /\ UNCHANGED nonHealthVars

\* binding.py:136-141  the target's query, then the conjunction is returned; the
\* query's exception ends the call with False.
HealthQueryTarget ==
  /\ h_pc = "target"
  /\ h_tgt_seen' = IF h_target THEN h_tgt_health ELSE "none"
  /\ h_result' = IF h_target /\ h_tgt_health = "raise"
                   THEN HealthOnException
                   ELSE IF BothHealthy(h_source_healthy,
                                       EndpointHealthy(h_target, h_tgt_health))
                          THEN "true" ELSE "false"
  /\ h_pc' = "returned"
  /\ UNCHANGED <<h_source, h_target, h_src_health, h_tgt_health, h_source_healthy,
                 h_src_seen, h_escaped>>
  /\ UNCHANGED nonHealthVars

\* An endpoint's health changes while the call is in progress (the call awaits).
EndpointHealthChanges ==
  /\ h_pc \in {"source", "target"}
  /\ \E a \in HealthAnswers :
       \/ h_src_health' = a /\ UNCHANGED h_tgt_health
       \/ h_tgt_health' = a /\ UNCHANGED h_src_health
  /\ UNCHANGED <<h_source, h_target, h_pc, h_source_healthy, h_src_seen, h_tgt_seen,
                 h_result, h_escaped>>
  /\ UNCHANGED nonHealthVars

HealthNext == HealthQuerySource \/ HealthQueryTarget \/ EndpointHealthChanges

\* ----------------------------------------------------------- Bindings.start

MaxBindings == 3     \* bindings of the supervisor

BindingIds == 1..MaxBindings

\* What the endpoints of a binding do when Binding.start starts them.
StartOutcomes == {"ok", "target_raises", "source_raises"}

\* bindings.py:75-77  tasks: one Binding.start coroutine per binding, in order
GatherArgs(n) == [i \in 1..n |-> i]

\* binding.py:98-122 with kubemq/client.py:136-147,179-212,270-275,398-399 and
\* ibm_mq/client.py:103-120,150-238,365-367,521-522  Binding.start holds no await
\* that suspends (the endpoints connect with blocking calls, poll only creates
\* its task): a start task runs from its first step to its end, reaching the
\* polling state or raising.
BindingStartResult(outcome) == IF outcome = "ok" THEN "polling" ELSE "failed"

SupInit ==
  /\ sup_outcome \in [BindingIds -> StartOutcomes]
  /\ sup_binding = [b \in BindingIds |-> "not_started"]
  /\ sup_ready = <<>>
  /\ sup_outer = "none" /\ sup_nfinished = 0 /\ sup_pc = "idle"

\* The supervisor's variables when it is not part of the specification.
SupIdle ==
  /\ sup_outcome = [b \in BindingIds |-> "ok"]
  /\ sup_binding = [b \in BindingIds |-> "not_started"]
  /\ sup_ready = <<>>
  /\ sup_outer = "none" /\ sup_nfinished = 0 /\ sup_pc = "idle"

\* bindings.py:74-79  Bindings.start: gather wraps each coroutine in a task (each
\* task's first step is queued as it is created) and Bindings.start awaits the
\* gather future.
BindingsStart ==
  /\ sup_pc = "idle"
  /\ LET args == GatherArgs(MaxBindings)
     IN /\ sup_ready' = [i \in DOMAIN args |-> <<"start", args[i]>>]
        /\ sup_binding' = [b \in BindingIds |->
                             IF \E i \in DOMAIN args : args[i] = b
                               THEN "scheduled" ELSE "not_started"]
  /\ sup_outer' = "pending"
  /\ sup_pc' = "awaiting"
  /\ UNCHANGED <<sup_outcome, sup_nfinished>>
  /\ UNCHANGED nonSupVars

\* bindings.py:77 with binding.py:98-122  the event loop runs the oldest ready
\* item, a Binding.start task: it runs to its end and its done callback (the
\* gather's) is queued behind what is already ready.
RunBindingStart ==
  /\ sup_ready # <<>> /\ Head(sup_ready)[1] = "start"
  /\ LET b == Head(sup_ready)[2]
     IN /\ sup_binding' = [sup_binding EXCEPT ![b] = BindingStartResult(sup_outcome[b])]
        /\ sup_ready' = Append(Tail(sup_ready), <<"done", b>>)
  /\ UNCHANGED <<sup_outcome, sup_outer, sup_nfinished, sup_pc>>
  /\ UNCHANGED nonSupVars

\* bindings.py:79  the gather's done callback for one child (return_exceptions is
\* not set): the first child exception becomes the gather's exception, the last
\* clean finish its result; either queues the wake-up of Bindings.start.
RunGatherCallback ==
  /\ sup_ready # <<>> /\ Head(sup_ready)[1] = "done"
  /\ LET b == Head(sup_ready)[2]
     IN IF sup_outer # "pending"
          THEN /\ sup_ready' = Tail(sup_ready)
               /\ UNCHANGED <<sup_outer, sup_nfinished>>
          ELSE IF sup_binding[b] = "failed"
            THEN /\ sup_outer' = "exception"
                 /\ sup_ready' = Append(Tail(sup_ready), <<"wake", 0>>)
                 /\ UNCHANGED sup_nfinished
            ELSE /\ sup_nfinished' = sup_nfinished + 1
                 /\ IF sup_nfinished + 1 = Len(GatherArgs(MaxBindings))
                      THEN /\ sup_outer' = "result"
                           /\ sup_ready' = Append(Tail(sup_ready), <<"wake", 0>>)
                      ELSE /\ sup_ready' = Tail(sup_ready)
                           /\ UNCHANGED sup_outer
  /\ UNCHANGED <<sup_outcome, sup_binding, sup_pc>>
  /\ UNCHANGED nonSupVars

\* bindings.py:79  Bindings.start resumes from the await: it returns, or the
\* gather's exception leaves it.
BindingsStartResume ==
  /\ sup_ready # <<>> /\ Head(sup_ready)[1] = "wake"
  /\ sup_pc = "awaiting"
  /\ sup_pc' = IF sup_outer = "exception" THEN "raised" ELSE "returned"
  /\ sup_ready' = Tail(sup_ready)
  /\ UNCHANGED <<sup_outcome, sup_binding, sup_outer, sup_nfinished>>
  /\ UNCHANGED nonSupVars

SupNext == BindingsStart \/ RunBindingStart \/ RunGatherCallback \/ BindingsStartResume

\* ------------------------------------ BindingsConfig.load and Bindings.init

MaxCfgBindings == 2  \* longest binding list of a configuration file

\* config.py:11-13  the direction tags of BindingType
SupportedTags == {"kubemq_to_ibm_mq", "ibm_mq_to_kubemq"}

\* The values a binding entry of the file may carry: a name ("MISSING": no name
\* given), a direction tag, a source and a target queue_name ("": none given).
CfgEntries ==
  [name : {"MISSING", "a", "b"},
   type : SupportedTags \cup {"other"},
   source_queue : {"", "q"},
   target_queue : {"", "q"}]

\* config.py:41-55  load: BindingType(binding["type"]) raises for a tag that is
\* not a member; the models give name and queue_name a default of None, so their
\* absence raises nothing here.
LoadAccepts(list) == \A i \in DOMAIN list : list[i].type \in SupportedTags

\* bindings.py:25-68 and metrics/binding.py:22-28  what Bindings.init checks for
\* one binding: the direction tag, a non-empty source and target queue_name, and
\* (in the metrics helper) that the name is a string.
InitAcceptsEntry(e) ==
  /\ e.type \in SupportedTags
  /\ e.source_queue # ""
  /\ e.target_queue # ""
  /\ e.name # "MISSING"

\* bindings.py:22,69-72  init goes through the list in order and raises at the
\* first binding that fails a check; the bindings before it have been appended.
RECURSIVE BuiltBefore(_, _)
BuiltBefore(list, i) ==
  IF i > Len(list) \/ ~InitAcceptsEntry(list[i]) THEN <<>>
  ELSE <<list[i].name>> \o BuiltBefore(list, i + 1)

CfgInit ==
  /\ cfg_list \in UNION {[1..n -> CfgEntries] : n \in 1..MaxCfgBindings}
  /\ cfg_pc = "unloaded"
  /\ cfg_built = <<>>

\* The configuration variables when they are not part of the specification.
CfgIdle ==
  /\ cfg_list = <<>> /\ cfg_pc = "unloaded" /\ cfg_built = <<>>

\* bindings.py:16 with config.py:32-55  Bindings.__init__: BindingsConfig.load
ConfigLoad ==
  /\ cfg_pc = "unloaded"
  /\ cfg_pc' = IF LoadAccepts(cfg_list) THEN "loaded" ELSE "load_failed"
  /\ UNCHANGED <<cfg_list, cfg_built>>
  /\ UNCHANGED nonCfgVars

\* bindings.py:20-72  Bindings.init
BindingsInit ==
  /\ cfg_pc = "loaded"
  /\ cfg_built' = BuiltBefore(cfg_list, 1)
  /\ cfg_pc' = IF \A i \in DOMAIN cfg_list : InitAcceptsEntry(cfg_list[i])
                 THEN "initialised" ELSE "init_failed"
  /\ UNCHANGED cfg_list
  /\ UNCHANGED nonCfgVars

CfgNext == ConfigLoad \/ BindingsInit

\* ------------------------------------- endpoint clients (IBM MQ and KubeMQ)
\* One client object, driven through start, poll, send_message, check_health,
\* get_metrics and stop, with its poll tasks and (IBM MQ) its two monitor tasks.

EndpointKinds == {"ibm", "kubemq"}

Pollers == 1..MaxPollCalls

Monitors == {"health", "heartbeat"}

\* MQ reason codes a get or a put can fail with
Reasons == {"MQRC_NO_MSG_AVAILABLE", "MQRC_CONNECTION_BROKEN", "MQRC_Q_MGR_QUIESCING",
            "MQRC_CONNECTION_QUIESCING", "MQRC_NOT_AUTHORIZED", "MQRC_TRUNCATED_MSG_FAILED"}

TRANSIENT_ERRORS == {"MQRC_NO_MSG_AVAILABLE"}

CONNECTION_ERRORS == {"MQRC_CONNECTION_BROKEN", "MQRC_Q_MGR_QUIESCING"}

CONFIGURATION_ERRORS == {"MQRC_NOT_AUTHORIZED"}

SHUTDOWN_ERRORS == {"MQRC_Q_MGR_QUIESCING", "MQRC_CONNECTION_QUIESCING"}

\* classify_error: membership tests in this order; a value that is no reason
\* code (a message text) is in none of the sets
ClassifyError(error_reason) ==
  IF error_reason \in TRANSIENT_ERRORS THEN "transient"
  ELSE IF error_reason \in CONNECTION_ERRORS THEN "connection"
  ELSE IF error_reason \in CONFIGURATION_ERRORS THEN "configuration"
  ELSE IF error_reason \in SHUTDOWN_ERRORS THEN "shutdown"
  ELSE "permanent"

\* get_error_message: the human-readable text of a reason code, a string
GetErrorMessage(error_reason) ==
  CASE error_reason = "MQRC_NO_MSG_AVAILABLE" -> "No message available on the queue"
    [] error_reason = "MQRC_CONNECTION_BROKEN" -> "Connection to IBM MQ server was lost"
    [] error_reason = "MQRC_NOT_AUTHORIZED" ->
         "Not authorized to access the requested resource"
    [] error_reason = "MQRC_Q_MGR_QUIESCING" -> "Queue manager is quiescing"
    [] OTHER -> "IBM MQ error with reason code"

\* the argument IBMMQClient.send_message._send_message classifies
SendErrorClassified(error_reason) == GetErrorMessage(error_reason)

NoSend == [pc |-> "idle", began_connected |-> FALSE, reconnects |-> 0, puts |-> 0,
           result |-> "none", put_error |-> "none", error_reconnects |-> 0]

E == [kind |-> e_kind, is_connected |-> e_is_connected, state |-> e_state,
      session |-> e_session, changes |-> e_changes, is_polling |-> e_is_polling,
      stop_event |-> e_stop_event, poll |-> e_poll, broken |-> e_broken,
      monitor |-> e_monitor, start |-> e_start, stop_pc |-> e_stop_pc,
      stop_log |-> e_stop_log, send |-> e_send,
      reconnect_tasks |-> e_reconnect_tasks, mode_valid |-> e_mode_valid]

EBecomes(s) ==
  /\ e_kind' = s.kind
  /\ e_is_connected' = s.is_connected
  /\ e_state' = s.state
  /\ e_session' = s.session
  /\ e_changes' = s.changes
  /\ e_is_polling' = s.is_polling
  /\ e_stop_event' = s.stop_event
  /\ e_poll' = s.poll
  /\ e_broken' = s.broken
  /\ e_monitor' = s.monitor
  /\ e_start' = s.start
  /\ e_stop_pc' = s.stop_pc
  /\ e_stop_log' = s.stop_log
  /\ e_send' = s.send
  /\ e_reconnect_tasks' = s.reconnect_tasks
  /\ e_mode_valid' = s.mode_valid
  /\ UNCHANGED nonEndVars

\* the state a step starts from: e_changes lists this step's changes only
AtStep == [E EXCEPT !.changes = <<>>]

\* MetricsCollector.track_connection_state
TrackConnectionState(s, state) ==
  IF s.state = state THEN s
  ELSE [s EXCEPT !.state = state, !.changes = Append(@, <<s.state, state>>)]

TransitionToConnected(s) ==
  TrackConnectionState([s EXCEPT !.is_connected = TRUE], "connected")

TransitionToDisconnected(s) ==
  TrackConnectionState([s EXCEPT !.is_connected = FALSE], "disconnected")

TransitionToReconnecting(s) ==
  TrackConnectionState([s EXCEPT !.is_connected = FALSE], "reconnecting")

\* IBMMQClient._disconnect: nothing is closed unless is_connected; the finally
\* clause marks the client disconnected in every case
IbmDisconnect(s) ==
  TransitionToDisconnected(IF s.is_connected THEN [s EXCEPT !.session = FALSE] ELSE s)

\* IBMMQClient._connect; ok: the queue manager accepted the connection and
\* the queue was opened
IbmConnect(s, ok) ==
  LET d == IF s.is_connected THEN IbmDisconnect(s) ELSE s
  IN  IF ok THEN TransitionToConnected([d EXCEPT !.session = TRUE])
      ELSE TransitionToDisconnected([d EXCEPT !.session = FALSE])

\* IBMMQClient._reconnect up to its sleep (max_reconnect_attempts is 0)
ReconnectBegin(s) == TransitionToReconnecting(s)

\* IBMMQClient._reconnect after its sleep
ReconnectEnd(s, ok) ==
  IF ok THEN TransitionToConnected(IbmConnect(s, TRUE))
  ELSE TransitionToDisconnected(IbmConnect(s, FALSE))

\* KubeMQClient._connect: a failure raises and leaves every field as it was
KubeConnect(s, ok) ==
  IF ok
  THEN TrackConnectionState([s EXCEPT !.is_connected = TRUE, !.session = TRUE],
                            "connected")
  ELSE s

\* KubeMQClient._disconnect: the client object has no close and is kept
KubeDisconnect(s) ==
  TrackConnectionState([s EXCEPT !.is_connected = FALSE], "disconnected")

\* what queue_manager.inquire / client.ping can answer now
ProbeAnswers(s) == IF s.session THEN BOOLEAN ELSE {FALSE}

EndInit ==
  /\ e_kind \in EndpointKinds
  /\ e_is_connected = FALSE
  /\ e_state = "disconnected"
  /\ e_session = FALSE
  /\ e_changes = <<>>
  /\ e_is_polling = FALSE
  /\ e_stop_event = FALSE
  /\ e_poll = [p \in Pollers |-> "none"]
  /\ e_broken = [p \in Pollers |-> FALSE]
  /\ e_monitor = [m \in Monitors |-> "none"]
  /\ e_start = "not_called"
  /\ e_stop_pc = "idle"
  /\ e_stop_log = <<>>
  /\ e_send = NoSend
  /\ e_reconnect_tasks = 0
  /\ e_mode_valid \in (IF e_kind = "ibm" THEN BOOLEAN ELSE {TRUE})

EndIdle == EndInit /\ e_kind = "ibm" /\ e_mode_valid

\* no stop() has been called yet
NotStopped == e_stop_pc = "idle" /\ e_stop_log = <<>>

\* start() has returned and no stop() has been called: the binding uses the
\* endpoint (Binding.start starts both endpoints before anything else)
InService == e_start = "returned" /\ NotStopped

\* IBMMQClient.start / KubeMQClient.start
EndStart(ok) ==
  /\ e_start = "not_called"
  /\ NotStopped
  /\ LET s1 == TrackConnectionState(AtStep, "connecting")
         s2 == IF e_kind = "ibm" THEN IbmConnect(s1, ok) ELSE KubeConnect(s1, ok)
     IN  EBecomes([s2 EXCEPT
           !.start = IF ok THEN "returned" ELSE "raised",
           !.monitor = IF ok /\ e_kind = "ibm"
                       THEN [m \in Monitors |-> "sleeping"] ELSE @])

\* poll tasks whose _process loop is running
ActivePollPcs == {"receiving", "sleeping", "reconnecting"}

\* the head of the poll loop of task p, up to its next await or its end
EndPollHead(s, p) ==
  IF s.kind = "ibm"
  THEN IF s.stop_event
       THEN [s EXCEPT !.poll[p] = "done", !.is_polling = FALSE]
       ELSE IF ~s.is_connected \/ s.broken[p]
            THEN [ReconnectBegin(s) EXCEPT !.poll[p] = "reconnecting"]
            ELSE [s EXCEPT !.poll[p] = "receiving"]
  ELSE IF s.is_polling /\ ~s.stop_event
       THEN [s EXCEPT !.poll[p] = "receiving"]
       ELSE [s EXCEPT !.poll[p] = "done", !.is_polling = FALSE]

\* poll(callback): raises when not connected, else creates the _process task;
\* nothing looks at is_polling or at an earlier polling_task
EndPoll(p) ==
  /\ InService
  /\ e_is_connected
  /\ e_poll[p] = "none"
  /\ \A q \in Pollers : q < p => e_poll[q] # "none"
  /\ EBecomes([AtStep EXCEPT !.poll[p] = "created"])

\* first run of a _process task; IBM MQ: get_receiver_strategy raises for an
\* unknown receiver_mode and the task ends with IBMMQConnectionError
EndPollTaskStart(p) ==
  /\ e_poll[p] = "created"
  /\ EBecomes(IF e_kind = "ibm" /\ ~e_mode_valid
              THEN [AtStep EXCEPT !.is_polling = TRUE, !.poll[p] = "raised"]
              ELSE EndPollHead([AtStep EXCEPT !.is_polling = TRUE, !.broken[p] = FALSE], p))

\* error texts a KubeMQ poll response can carry
KubeErrors == {"connection refused", "request timeout", "queue not found"}

\* kubemq/client.py classify_error: keywords looked for in the error text
KubeClassifyError(error_msg) ==
  CASE error_msg = "connection refused" -> "connection"
    [] error_msg = "request timeout" -> "transient"
    [] OTHER -> "permanent"

PollOutcomes(kind) ==
  IF kind = "ibm" THEN {"message", "unexpected"} \cup Reasons
  ELSE {"message", "empty"} \cup KubeErrors

\* IBMMQClient.poll._process after the get returned or raised
IbmPollReceived(s, p, outcome) ==
  IF outcome = "message" THEN EndPollHead(s, p)
  ELSE IF outcome = "unexpected"
  THEN EndPollHead(IF s.is_connected
                   THEN [s EXCEPT !.broken[p] = TRUE, !.is_connected = FALSE]
                   ELSE s, p)
  ELSE IF ClassifyError(outcome) = "transient" THEN [s EXCEPT !.poll[p] = "sleeping"]
  ELSE IF ClassifyError(outcome) = "connection"
  THEN EndPollHead([s EXCEPT !.broken[p] = TRUE, !.is_connected = FALSE], p)
  ELSE IF ClassifyError(outcome) = "shutdown"
  THEN [s EXCEPT !.broken[p] = TRUE, !.is_connected = FALSE, !.poll[p] = "sleeping"]
  ELSE [s EXCEPT !.poll[p] = "sleeping"]

\* KubeMQClient.poll._process after receive_queues_messages returned
KubePollReceived(s, p, outcome) ==
  IF outcome \in KubeErrors
  THEN \* the class of the error only chooses how long the loop sleeps
       [s EXCEPT !.poll[p] = "sleeping"]
  ELSE EndPollHead(s, p)

EndPollReceived(p, outcome) ==
  /\ e_poll[p] = "receiving"
  /\ outcome \in PollOutcomes(e_kind)
  /\ EBecomes(IF e_kind = "ibm" THEN IbmPollReceived(AtStep, p, outcome)
              ELSE KubePollReceived(AtStep, p, outcome))

EndPollSleepDone(p) ==
  /\ e_poll[p] = "sleeping"
  /\ EBecomes(EndPollHead(AtStep, p))

\* the poll loop's _reconnect wakes from its back-off sleep
EndPollReconnectDone(p, ok) ==
  /\ e_poll[p] = "reconnecting"
  /\ LET s == ReconnectEnd(AtStep, ok)
     IN  EBecomes(IF ok THEN [s EXCEPT !.broken[p] = FALSE, !.poll[p] = "receiving"]
                  ELSE EndPollHead(s, p))

\* IBMMQClient.check_health: probe, then make is_connected follow the probe
IbmCheckHealth(s, active) ==
  IF active /\ ~s.is_connected THEN TransitionToConnected(s)
  ELSE IF ~active /\ s.is_connected THEN TransitionToDisconnected(s)
  ELSE s

\* KubeMQClient.check_health: pings only when is_connected
KubeCheckHealth(s, active) ==
  IF ~s.is_connected THEN s
  ELSE IF active THEN TrackConnectionState([s EXCEPT !.is_connected = TRUE], "connected")
  ELSE TrackConnectionState([s EXCEPT !.is_connected = FALSE], "disconnected")

\* KubeMQClient.get_metrics: a ping that succeeds sets the flag only
KubeGetMetrics(s, active) ==
  IF active THEN [s EXCEPT !.is_connected = TRUE]
  ELSE TrackConnectionState([s EXCEPT !.is_connected = FALSE], "disconnected")

EndCheckHealth(active) ==
  /\ InService
  /\ active \in ProbeAnswers(E)
  /\ EBecomes(IF e_kind = "ibm" THEN IbmCheckHealth(AtStep, active)
              ELSE KubeCheckHealth(AtStep, active))

EndGetMetrics(active) ==
  /\ InService
  /\ e_kind = "kubemq"
  /\ active \in ProbeAnswers(E)
  /\ EBecomes(KubeGetMetrics(AtStep, active))

\* perform_health_check (detailed = False): the status and the errors of its result
PerformHealthCheck(is_connected, responsive) ==
  IF ~is_connected
  THEN [status |-> "unhealthy", errors |-> {"Not connected to IBM MQ"}]
  ELSE IF ~responsive
  THEN [status |-> "degraded", errors |-> {"Queue manager is not responsive"}]
  ELSE [status |-> "healthy", errors |-> {}]

\* the test the monitor tasks make on the result of check_health
MonitorSeesBrokenConnection(s, health_result) ==
  /\ health_result.status = "unhealthy"
  /\ "queue_manager_check" \in health_result.errors
  /\ s.is_connected

\* _periodic_health_check / _periodic_heartbeat wake from their sleep
EndMonitorWake(m, active) ==
  /\ e_monitor[m] = "sleeping"
  /\ active \in ProbeAnswers(E)
  /\ LET s == IbmCheckHealth(AtStep, active)
     IN  EBecomes(
           IF e_stop_event THEN [AtStep EXCEPT !.monitor[m] = "done"]
           ELSE IF ~e_is_connected THEN AtStep
           ELSE IF MonitorSeesBrokenConnection(s, PerformHealthCheck(s.is_connected, active))
           THEN [TrackConnectionState([s EXCEPT !.is_connected = FALSE], "disconnected")
                   EXCEPT !.reconnect_tasks = @ + 1]
           ELSE s)

\* faulty variant of the last statements of stop(): the client is marked
\* disconnected only when is_connected was set
StopFinishTrustingFlag(s) ==
  LET t == IF ~s.is_connected THEN s
           ELSE IF s.kind = "ibm" THEN IbmDisconnect(s) ELSE KubeDisconnect(s)
  IN  [t EXCEPT !.stop_pc = "idle",
                !.stop_log = Append(@, <<t.is_connected, t.state>>)]

\* the last statements of stop(): _disconnect, then the state is recorded
StopFinish(s) ==
  LET d == IF s.kind = "ibm" THEN IbmDisconnect(s) ELSE KubeDisconnect(s)
      t == TrackConnectionState(d, "disconnected")
  IN  [t EXCEPT !.stop_pc = "idle",
                !.stop_log = Append(@, <<t.is_connected, t.state>>)]

\* IBMMQClient.stop from the cancellation of the given monitor task on
IbmStopFrom(s, m) ==
  IF m = "health" /\ s.monitor["health"] = "sleeping"
  THEN [s EXCEPT !.monitor["health"] = "cancelling", !.stop_pc = "await_health"]
  ELSE IF s.monitor["heartbeat"] = "sleeping"
  THEN [s EXCEPT !.monitor["heartbeat"] = "cancelling", !.stop_pc = "await_heartbeat"]
  ELSE StopFinish(s)

\* the tasks KubeMQClient.stop finds not done in self._tasks
KubePending(s) == {p \in Pollers : s.poll[p] \in ActivePollPcs \cup {"created"}}

\* stop(), up to its first await or its return
EndStop ==
  /\ e_stop_pc = "idle"
  /\ Len(e_stop_log) < 2
  /\ LET s == [AtStep EXCEPT !.stop_event = @ \/ e_is_polling]
     IN  EBecomes(IF e_kind = "ibm" THEN IbmStopFrom(s, "health")
                  ELSE IF KubePending(s) # {}
                  THEN [s EXCEPT
                          !.poll = [p \in Pollers |->
                                      IF p \in KubePending(s) THEN "cancelling" ELSE @[p]],
                          !.stop_pc = "await_tasks"]
                  ELSE StopFinish(s))

\* the cancelled monitor task ends and IBMMQClient.stop goes on
EndStopMonitorAwaited ==
  /\ e_stop_pc \in {"await_health", "await_heartbeat"}
  /\ LET m == IF e_stop_pc = "await_health" THEN "health" ELSE "heartbeat"
     IN  EBecomes(IbmStopFrom([AtStep EXCEPT !.monitor[m] = "done"], "heartbeat"))

\* the cancelled poll tasks end (CancelledError skips the loop's last
\* statement) and KubeMQClient.stop goes on
EndStopTasksAwaited ==
  /\ e_stop_pc = "await_tasks"
  /\ EBecomes(StopFinish([AtStep EXCEPT
       !.poll = [p \in Pollers |-> IF @[p] = "cancelling" THEN "cancelled" ELSE @[p]]]))

\* IBMMQClient.send_message after the client is connected: the direct test
IbmSendProbe(s, valid) ==
  IF valid THEN [s EXCEPT !.send.pc = "putting"]
  ELSE [ReconnectBegin(TransitionToDisconnected(s)) EXCEPT
          !.send.pc = "reconnect_probe", !.send.reconnects = @ + 1]

\* send_message(message), up to its first await or its end
EndSend(valid) ==
  /\ InService
  /\ e_send.pc = "idle"
  /\ valid \in ProbeAnswers(E)
  /\ LET s == [AtStep EXCEPT !.send.began_connected = e_is_connected]
     IN  EBecomes(
           IF e_kind = "kubemq"
           THEN [s EXCEPT !.send.pc = "done",
                          !.send.result = IF e_is_connected THEN "scheduled"
                                          ELSE "connection_error"]
           ELSE IF ~e_is_connected
           THEN [ReconnectBegin(s) EXCEPT !.send.pc = "reconnect_first",
                                          !.send.reconnects = @ + 1]
           ELSE IbmSendProbe(s, valid))

\* a _reconnect awaited by send_message wakes from its back-off sleep
EndSendReconnectDone(ok, valid) ==
  /\ e_send.pc \in {"reconnect_first", "reconnect_probe", "reconnect_resend"}
  /\ LET s == ReconnectEnd(AtStep, ok)
     IN  EBecomes(
           IF ~ok THEN [s EXCEPT !.send.pc = "done", !.send.result = "connection_error"]
           ELSE IF e_send.pc = "reconnect_probe" THEN [s EXCEPT !.send.pc = "putting"]
           ELSE IbmSendProbe(s, valid))

\* the put made in a worker thread returned or raised
EndSendPutDone(outcome) ==
  /\ e_send.pc = "putting"
  /\ outcome \in {"ok", "unexpected"} \cup Reasons
  /\ LET s == AtStep
     IN  EBecomes(
           IF outcome = "ok"
           THEN [s EXCEPT !.send.pc = "done", !.send.puts = @ + 1, !.send.result = "ok"]
           ELSE IF outcome = "unexpected"
           THEN [TransitionToDisconnected(s) EXCEPT
                   !.send.pc = "done", !.send.result = "connection_error"]
           ELSE IF ClassifyError(SendErrorClassified(outcome)) \in {"connection", "shutdown"}
           THEN [ReconnectBegin(TransitionToDisconnected(s)) EXCEPT
                   !.send.pc = "reconnect_resend", !.send.put_error = outcome,
                   !.send.reconnects = @ + 1, !.send.error_reconnects = @ + 1]
           ELSE [s EXCEPT !.send.pc = "done", !.send.put_error = outcome,
                          !.send.result = "connection_error"])

EndNext ==
  \/ \E ok \in BOOLEAN : EndStart(ok)
  \/ \E p \in Pollers : EndPoll(p)
  \/ \E p \in Pollers : EndPollTaskStart(p)
  \/ \E p \in Pollers : \E outcome \in PollOutcomes("ibm") \cup PollOutcomes("kubemq") :
        EndPollReceived(p, outcome)
  \/ \E p \in Pollers : EndPollSleepDone(p)
  \/ \E p \in Pollers : \E ok \in BOOLEAN : EndPollReconnectDone(p, ok)
  \/ \E active \in BOOLEAN : EndCheckHealth(active)
  \/ \E active \in BOOLEAN : EndGetMetrics(active)
  \/ \E m \in Monitors : \E active \in BOOLEAN : EndMonitorWake(m, active)
  \/ EndStop
  \/ EndStopMonitorAwaited
  \/ EndStopTasksAwaited
  \/ \E valid \in BOOLEAN : EndSend(valid)
  \/ \E ok \in BOOLEAN : \E valid \in BOOLEAN : EndSendReconnectDone(ok, valid)
  \/ \E outcome \in {"ok", "unexpected"} \cup Reasons : EndSendPutDone(outcome)

\* --------------------- IBMMQClient._reconnect: its counters and its ceiling
\* The poll loop of one IBM MQ endpoint with max_reconnect_attempts = rc_max,
\* reduced to what _reconnect reads and writes.

\* faulty variant of the ceiling test: gives up one attempt too late
CeilingReachedLate(max_reconnect_attempts, reconnect_attempts) ==
  max_reconnect_attempts > 0 /\ reconnect_attempts > max_reconnect_attempts

\* _reconnect: the ceiling test made before anything else
CeilingReached(max_reconnect_attempts, reconnect_attempts) ==
  max_reconnect_attempts > 0 /\ reconnect_attempts >= max_reconnect_attempts

R == [max |-> rc_max, reconnect_attempts |-> rc_reconnect_attempts,
      attempts_total |-> rc_attempts_total, failures_total |-> rc_failures_total,
      is_connected |-> rc_is_connected, stop_event |-> rc_stop_event,
      broken |-> rc_broken, pc |-> rc_pc, made |-> rc_made, failed |-> rc_failed,
      streak |-> rc_streak, stop_requested |-> rc_stop_requested]

RBecomes(s) ==
  /\ rc_max' = s.max
  /\ rc_reconnect_attempts' = s.reconnect_attempts
  /\ rc_attempts_total' = s.attempts_total
  /\ rc_failures_total' = s.failures_total
  /\ rc_is_connected' = s.is_connected
  /\ rc_stop_event' = s.stop_event
  /\ rc_broken' = s.broken
  /\ rc_pc' = s.pc
  /\ rc_made' = s.made
  /\ rc_failed' = s.failed
  /\ rc_streak' = s.streak
  /\ rc_stop_requested' = s.stop_requested
  /\ UNCHANGED nonRecVars

\* the head of the poll loop, up to its next await or its end: the stop event,
\* then _reconnect up to its sleep when the connection is down
RecHead(s) ==
  IF s.stop_event THEN [s EXCEPT !.pc = "done"]
  ELSE IF ~s.is_connected \/ s.broken
  THEN IF CeilingReached(s.max, s.reconnect_attempts)
       THEN \* gives up: sets the stop event and returns False; the loop ends
            [s EXCEPT !.stop_event = TRUE, !.pc = "done"]
       ELSE \* transition_to_reconnecting counts the attempt
            [s EXCEPT !.reconnect_attempts = @ + 1, !.is_connected = FALSE,
                      !.attempts_total = @ + 1, !.made = @ + 1, !.pc = "backoff"]
  ELSE [s EXCEPT !.pc = "receiving"]

RecInit ==
  /\ rc_max \in 0..MaxCeiling
  /\ rc_reconnect_attempts = 0
  /\ rc_attempts_total = 0
  /\ rc_failures_total = 0
  /\ rc_is_connected = TRUE
  /\ rc_stop_event = FALSE
  /\ rc_broken = FALSE
  /\ rc_pc = "receiving"
  /\ rc_made = 0
  /\ rc_failed = 0
  /\ rc_streak = 0
  /\ rc_stop_requested = FALSE

RecIdle == RecInit /\ rc_max = 0

\* the get returned a message or raised an error of class Connection
RecReceived(outcome) ==
  /\ rc_pc = "receiving"
  /\ rc_made < MaxReconnects
  /\ RBecomes(RecHead(IF outcome = "message" THEN R
                      ELSE [R EXCEPT !.broken = TRUE, !.is_connected = FALSE]))

\* _reconnect after its sleep: _connect, then transition_to_connected or
\* transition_to_disconnected
RecReconnectDone(ok) ==
  /\ rc_pc = "backoff"
  /\ ok \/ rc_made < MaxReconnects \/ CeilingReached(rc_max, rc_reconnect_attempts)
  /\ RBecomes(IF ok
              THEN [R EXCEPT !.is_connected = TRUE, !.reconnect_attempts = 0,
                             !.streak = 0, !.broken = FALSE, !.pc = "receiving"]
              ELSE RecHead([R EXCEPT !.is_connected = FALSE, !.failed = @ + 1,
                                     !.streak = @ + 1]))

\* stop() while the loop runs: is_polling holds, the stop event is set
RecStop ==
  /\ rc_pc # "done"
  /\ ~rc_stop_requested
  /\ RBecomes([R EXCEPT !.stop_event = TRUE, !.stop_requested = TRUE])

RecNext ==
  \/ \E outcome \in {"message", "connection"} : RecReceived(outcome)
  \/ \E ok \in BOOLEAN : RecReconnectDone(ok)
  \/ RecStop

\* ------------------------------------------------------- metrics collectors
\* Two bindings, one of each type, each with a source and a target endpoint
\* collector; the system collector registers binding collectors by name.

MaxMetOps == 2     \* tracked operations in a run
MaxClock == 1      \* largest value of time.time()
MaxSize == 1       \* largest message length in bytes
MaxDuration == 1   \* largest measured duration in ms

MetBindings == {"b1", "b2"}

Sides == {"source", "target"}

\* Optional[float]: None is the empty tuple, a timestamp t is <<t>>
NoTime == <<>>

\* BindingType: b1 is ibm_mq_to_kubemq, b2 is kubemq_to_ibm_mq
ClientKind(b, side) == IF (b = "b1") = (side = "source") THEN "ibm" ELSE "kubemq"

\* MetricsCollector.__init__
NewCollector ==
  [messages_received_total     |-> 0,
   messages_received_volume    |-> 0,
   messages_sent_total         |-> 0,
   messages_sent_volume        |-> 0,
   errors_sent_total           |-> 0,
   errors_received_total       |-> 0,
   reconnection_attempts_total |-> 0,
   reconnection_failures_total |-> 0,
   last_message_received_time   |-> NoTime,
   last_message_sent_time       |-> NoTime,
   last_error_received_time     |-> NoTime,
   last_error_sent_time         |-> NoTime,
   last_reconnection_time       |-> NoTime,
   last_reconnection_error_time |-> NoTime]

CounterNames ==
  {"messages_received_total", "messages_received_volume", "messages_sent_total",
   "messages_sent_volume", "errors_sent_total", "errors_received_total",
   "reconnection_attempts_total", "reconnection_failures_total"}

TimestampNames ==
  {"last_message_received_time", "last_message_sent_time",
   "last_error_received_time", "last_error_sent_time", "last_reconnection_time",
   "last_reconnection_error_time"}

\* time.time()
Now == <<m_clock>>

\* faulty variant of AtomicCounter.increment: a one-bit counter
CounterWraps(value) == (value + 1) % 2

\* AtomicCounter.add: a negative result raises and leaves the value
CounterAdd(value, amount) ==
  IF value + amount < 0 THEN value ELSE value + amount

\* AtomicCounter.increment
CounterIncrement(value) == value + 1

TrackMessageReceived(c, message_size) ==
  [c EXCEPT !.messages_received_total = CounterIncrement(@),
            !.messages_received_volume = CounterAdd(@, message_size),
            !.last_message_received_time = Now]

TrackMessageSent(c, message_size) ==
  [c EXCEPT !.messages_sent_total = CounterIncrement(@),
            !.messages_sent_volume = CounterAdd(@, message_size),
            !.last_message_sent_time = Now]

TrackError(c, is_send) ==
  IF is_send
  THEN [c EXCEPT !.errors_sent_total = CounterIncrement(@),
                 !.last_error_sent_time = Now]
  ELSE [c EXCEPT !.errors_received_total = CounterIncrement(@),
                 !.last_error_received_time = Now]

TrackReconnectionAttempt(c) ==
  [c EXCEPT !.reconnection_attempts_total = CounterIncrement(@),
            !.last_reconnection_time = Now]

TrackReconnectionFailure(c) ==
  [c EXCEPT !.reconnection_failures_total = CounterIncrement(@),
            !.last_reconnection_error_time = Now]

\* faulty variant of get_latest_timestamp: prefers its first argument
GetFirstTimestamp(timestamp1, timestamp2) ==
  IF timestamp1 = NoTime THEN timestamp2 ELSE timestamp1

\* BindingMetricsCollector.get_latest_timestamp
GetLatestTimestamp(timestamp1, timestamp2) ==
  IF timestamp1 = NoTime /\ timestamp2 = NoTime THEN NoTime
  ELSE IF timestamp1 = NoTime THEN timestamp2
  ELSE IF timestamp2 = NoTime THEN timestamp1
  ELSE IF timestamp1[1] >= timestamp2[1] THEN timestamp1 ELSE timestamp2

\* BindingMetricsCollector.get_metrics of binding b
BindingGetMetrics(b) ==
  LET source_metrics == m_coll[b]["source"]
      target_metrics == m_coll[b]["target"]
  IN [name |-> b,
      messages_received_total  |-> source_metrics.messages_received_total,
      messages_received_volume |-> source_metrics.messages_received_volume,
      messages_sent_total      |-> target_metrics.messages_sent_total,
      messages_sent_volume     |-> target_metrics.messages_sent_volume,
      errors_sent_total        |-> target_metrics.errors_sent_total,
      errors_received_total    |-> source_metrics.errors_received_total,
      reconnection_attempts_total |->
        source_metrics.reconnection_attempts_total
          + target_metrics.reconnection_attempts_total,
      reconnection_failures_total |->
        source_metrics.reconnection_failures_total
          + target_metrics.reconnection_failures_total,
      last_message_received_timestamp |-> source_metrics.last_message_received_time,
      last_message_sent_timestamp     |-> target_metrics.last_message_sent_time,
      last_error_received_timestamp   |-> source_metrics.last_error_received_time,
      last_error_sent_timestamp       |-> target_metrics.last_error_sent_time,
      last_reconnection_timestamp |->
        GetLatestTimestamp(source_metrics.last_reconnection_time,
                           target_metrics.last_reconnection_time),
      last_reconnection_error_timestamp |->
        GetLatestTimestamp(source_metrics.last_reconnection_error_time,
                           target_metrics.last_reconnection_error_time)]

\* faulty variant of the system collector's get_latest_timestamp: the earliest
SystemGetEarliestTimestamp(timestamps) ==
  LET valid_timestamps == {ts \in timestamps : ts # NoTime}
  IN IF valid_timestamps = {} THEN NoTime
     ELSE CHOOSE ts \in valid_timestamps : \A o \in valid_timestamps : ts[1] <= o[1]

\* SystemMetricsCollector.get_latest_timestamp
SystemGetLatestTimestamp(timestamps) ==
  LET valid_timestamps == {ts \in timestamps : ts # NoTime}
  IN IF valid_timestamps = {} THEN NoTime
     ELSE CHOOSE ts \in valid_timestamps : \A o \in valid_timestamps : ts[1] >= o[1]

\* the loop of SystemMetricsCollector.get_metrics over binding_collectors.items()
RECURSIVE AggregateCounter(_, _)
AggregateCounter(names, counter) ==
  IF names = {} THEN 0
  ELSE LET name == CHOOSE n \in names : TRUE
           binding_data == BindingGetMetrics(m_binding_collectors[name])
       IN binding_data[counter] + AggregateCounter(names \ {name}, counter)

\* SystemMetricsCollector.get_metrics
SystemGetMetrics ==
  LET names == DOMAIN m_binding_collectors
      of_source(field) == {m_coll[m_binding_collectors[n]]["source"][field] : n \in names}
      of_target(field) == {m_coll[m_binding_collectors[n]]["target"][field] : n \in names}
  IN [system |->
        [messages_received_total  |-> AggregateCounter(names, "messages_received_total"),
         messages_received_volume |-> AggregateCounter(names, "messages_received_volume"),
         messages_sent_total      |-> AggregateCounter(names, "messages_sent_total"),
         messages_sent_volume     |-> AggregateCounter(names, "messages_sent_volume"),
         errors_sent_total        |-> AggregateCounter(names, "errors_sent_total"),
         errors_received_total    |-> AggregateCounter(names, "errors_received_total"),
         reconnection_attempts_total |->
           AggregateCounter(names, "reconnection_attempts_total"),
         reconnection_failures_total |->
           AggregateCounter(names, "reconnection_failures_total"),
         bindings_total |-> Cardinality(names),
         last_message_received_timestamp |->
           SystemGetLatestTimestamp(of_source("last_message_received_time")),
         last_message_sent_timestamp |->
           SystemGetLatestTimestamp(of_target("last_message_sent_time")),
         last_error_received_timestamp |->
           SystemGetLatestTimestamp(of_source("last_error_received_time")),
         last_error_sent_timestamp |->
           SystemGetLatestTimestamp(of_target("last_error_sent_time")),
         last_reconnection_timestamp |->
           SystemGetLatestTimestamp(of_source("last_reconnection_time")
                                      \cup of_target("last_reconnection_time")),
         last_reconnection_error_timestamp |->
           SystemGetLatestTimestamp(of_source("last_reconnection_error_time")
                                      \cup of_target("last_reconnection_error_time"))],
      bindings |-> [n \in names |-> BindingGetMetrics(m_binding_collectors[n])]]

MetInit ==
  /\ m_coll = [b \in MetBindings |-> [side \in Sides |-> NewCollector]]
  /\ m_clock = 0
  /\ m_binding_collectors = <<>>
  /\ m_ops = 0

MetIdle == MetInit

\* one tracked operation on the collector of an endpoint
MetBecomes(b, side, c) ==
  /\ m_ops < MaxMetOps
  /\ m_coll' = [m_coll EXCEPT ![b][side] = c]
  /\ m_ops' = m_ops + 1
  /\ UNCHANGED <<m_clock, m_binding_collectors>>
  /\ UNCHANGED nonMetVars

MetTrackMessageReceived(b, side, message_size) ==
  MetBecomes(b, side, TrackMessageReceived(m_coll[b][side], message_size))

MetTrackMessageSent(b, side, message_size) ==
  MetBecomes(b, side, TrackMessageSent(m_coll[b][side], message_size))

MetTrackError(b, side, is_send) ==
  MetBecomes(b, side, TrackError(m_coll[b][side], is_send))

MetTrackReconnectionAttempt(b, side) ==
  MetBecomes(b, side, TrackReconnectionAttempt(m_coll[b][side]))

MetTrackReconnectionFailure(b, side) ==
  MetBecomes(b, side, TrackReconnectionFailure(m_coll[b][side]))

\* The source client of binding b received a message of message_size bytes
\* after receive_duration_ms and its callback returned.
MetReceive(b, message_size, receive_duration_ms) ==
  MetBecomes(b, "source",
    IF ClientKind(b, "source") = "ibm"
    THEN TrackMessageReceived(m_coll[b]["source"], receive_duration_ms)
    ELSE TrackMessageReceived(m_coll[b]["source"], message_size))

SendOutcomes == {"ok", "rejected", "raised"}

\* The target client of binding b made one send attempt of a message of
\* message_size bytes. "rejected": pymqi.MQMIError / result.is_error;
\* "raised": any other exception.
MetSend(b, message_size, send_duration_ms, outcome) ==
  LET c == m_coll[b]["target"]
  IN MetBecomes(b, "target",
       IF ClientKind(b, "target") = "ibm"
       THEN CASE outcome = "ok" -> TrackMessageSent(c, send_duration_ms)
              [] outcome = "rejected" -> TrackError(c, FALSE)
              [] outcome = "raised" -> c
       ELSE CASE outcome = "ok" -> TrackMessageSent(c, message_size)
              [] outcome = "rejected" -> TrackError(TrackMessageSent(c, message_size), TRUE)
              [] outcome = "raised" -> TrackError(c, TRUE))

\* SystemMetricsCollector.add_binding, called with a binding's name and its
\* own collector
MetAddBinding(binding_name) ==
  /\ m_binding_collectors' =
       [n \in DOMAIN m_binding_collectors \cup {binding_name} |->
          IF n = binding_name THEN binding_name ELSE m_binding_collectors[n]]
  /\ UNCHANGED <<m_coll, m_clock, m_ops>>
  /\ UNCHANGED nonMetVars

\* SystemMetricsCollector.remove_binding
MetRemoveBinding(binding_name) ==
  /\ m_binding_collectors' =
       IF binding_name \in DOMAIN m_binding_collectors
       THEN [n \in DOMAIN m_binding_collectors \ {binding_name} |-> m_binding_collectors[n]]
       ELSE m_binding_collectors
  /\ UNCHANGED <<m_coll, m_clock, m_ops>>
  /\ UNCHANGED nonMetVars

\* time passes between two operations
MetTick ==
  /\ m_ops < MaxMetOps
  /\ m_clock < MaxClock
  /\ m_clock' = m_clock + 1
  /\ UNCHANGED <<m_coll, m_binding_collectors, m_ops>>
  /\ UNCHANGED nonMetVars

MetNext ==
  \/ \E b \in MetBindings, side \in Sides :
       \/ \E message_size \in 1..MaxSize :
            \/ MetTrackMessageReceived(b, side, message_size)
            \/ MetTrackMessageSent(b, side, message_size)
       \/ \E is_send \in BOOLEAN : MetTrackError(b, side, is_send)
       \/ MetTrackReconnectionAttempt(b, side)
       \/ MetTrackReconnectionFailure(b, side)
  \/ \E b \in MetBindings, message_size \in 1..MaxSize, duration_ms \in 0..MaxDuration :
       \/ MetReceive(b, message_size, duration_ms)
       \/ \E outcome \in SendOutcomes : MetSend(b, message_size, duration_ms, outcome)
  \/ \E binding_name \in MetBindings :
       \/ MetAddBinding(binding_name)
       \/ MetRemoveBinding(binding_name)
  \/ MetTick

\* ------------------------------------- IBM MQ endpoint: the attempt counter
\* IBMMQClient.reconnect_attempts and is_connected under the callers of
\* _reconnect (the poll loop, send_message, the task a monitor creates) and
\* check_health; one step runs from an await to the next.

Callers == {"poller", "sender", "monitor"}

\* faulty variant of transition_to_connected: the counter is kept
TransitionToConnectedKeepsCount(s) == [s EXCEPT !.is_connected = TRUE, !.since = 0]

\* IBMMQClient.transition_to_connected
AttTransitionToConnected(s) ==
  [s EXCEPT !.is_connected = TRUE, !.reconnect_attempts = 0, !.since = 0]

\* IBMMQClient.transition_to_disconnected
AttTransitionToDisconnected(s) == [s EXCEPT !.is_connected = FALSE]

\* IBMMQClient.transition_to_reconnecting
AttTransitionToReconnecting(s) == [s EXCEPT !.is_connected = FALSE]

A == [max |-> ra_max, reconnect_attempts |-> ra_reconnect_attempts,
      is_connected |-> ra_is_connected, stop_event |-> ra_stop_event,
      pc |-> ra_pc, since |-> ra_since]

ABecomes(s) ==
  /\ ra_max' = s.max
  /\ ra_reconnect_attempts' = s.reconnect_attempts
  /\ ra_is_connected' = s.is_connected
  /\ ra_stop_event' = s.stop_event
  /\ ra_pc' = s.pc
  /\ ra_since' = s.since
  /\ UNCHANGED nonAttVars

\* after start(): _connect succeeded and called transition_to_connected
AttInit ==
  /\ ra_max \in 0..MaxCeiling
  /\ ra_reconnect_attempts = 0
  /\ ra_is_connected = TRUE
  /\ ra_stop_event = FALSE
  /\ ra_pc = [c \in Callers |-> "idle"]
  /\ ra_since = 0

AttIdle == AttInit /\ ra_max = 0

\* a get or a put raised an error of class Connection: the handler clears
\* is_connected
AttConnectionError(c) ==
  /\ c \in {"poller", "sender"}
  /\ ra_pc[c] = "idle"
  /\ ra_is_connected
  /\ ABecomes([A EXCEPT !.is_connected = FALSE])

\* a monitor's probe failed while connected: is_connected is cleared and a
\* task running _reconnect is created
AttMonitorProbeFailed ==
  /\ ra_pc["monitor"] = "idle"
  /\ ra_is_connected
  /\ ~ra_stop_event
  /\ ABecomes([A EXCEPT !.is_connected = FALSE, !.pc["monitor"] = "created"])

\* _reconnect up to its sleep: the ceiling test, the increment and
\* transition_to_reconnecting, with no await between them
AttReconnectBegin(c) ==
  /\ \/ c \in {"poller", "sender"} /\ ra_pc[c] = "idle" /\ ~ra_is_connected
     \/ c = "monitor" /\ ra_pc[c] = "created"
  /\ ~ra_stop_event
  /\ ra_reconnect_attempts < MaxReconnects
  /\ ABecomes(IF CeilingReached(ra_max, ra_reconnect_attempts)
              THEN [A EXCEPT !.stop_event = TRUE, !.pc[c] = "idle"]
              ELSE AttTransitionToReconnecting(
                     [A EXCEPT !.reconnect_attempts = @ + 1, !.since = @ + 1,
                               !.pc[c] = "backoff"]))

\* _reconnect after its sleep: _connect, then transition_to_connected, or
\* transition_to_disconnected when _connect raised
AttReconnectEnd(c, ok) ==
  /\ ra_pc[c] = "backoff"
  /\ ABecomes(IF ok
              THEN AttTransitionToConnected([A EXCEPT !.pc[c] = "idle"])
              ELSE AttTransitionToDisconnected([A EXCEPT !.pc[c] = "idle"]))

\* check_health: is_connected is reconciled with the probe's answer
AttCheckHealth(active) ==
  /\ active # ra_is_connected
  /\ ABecomes(IF active THEN AttTransitionToConnected(A)
              ELSE AttTransitionToDisconnected(A))

AttNext ==
  \/ \E c \in Callers :
       \/ AttConnectionError(c)
       \/ AttReconnectBegin(c)
       \/ \E ok \in BOOLEAN : AttReconnectEnd(c, ok)
  \/ AttMonitorProbeFailed
  \/ \E active \in BOOLEAN : AttCheckHealth(active)

\* ------------------------------------------------------------ AtomicCounter
\* One counter shared by two threads. A call is cut where the interpreter
\* can switch threads: before the lock is taken, between the read and the
\* store of the value, and before the return expression is evaluated.

MaxCtrOps == 3     \* calls made on the counter in a run
MaxAmount == 1     \* largest magnitude of an amount passed to add
MaxInitial == 1    \* largest initial value and reset value

Threads == {"t1", "t2"}

CtrOps == {"increment", "add", "reset"}

\* Optional[int]: None is the empty tuple, a value v is <<v>>
None == <<>>

\* faulty variant of threading.Lock: it never excludes
LockNeverHeld(lock) == TRUE

\* threading.Lock.acquire returns only when no thread holds the lock
LockIsFree(lock) == lock = "free"

\* faulty variant of the test made by add: the sign is not looked at
AddNeverRejects(new_value) == FALSE

\* add: new_value < 0 raises ValueError
AddRejects(new_value) == new_value < 0

\* __init__ and reset: a negative argument raises ValueError
ArgumentRejected(value) == value < 0

IdleThread == [pc |-> "idle", op |-> "increment", amount |-> 0,
               return_value |-> FALSE, new_value |-> 0, written |-> 0,
               ret |-> None]

K == [value |-> ct_value, lock |-> ct_lock, thr |-> ct_thr,
      expected |-> ct_expected, ops |-> ct_ops]

KBecomes(s) ==
  /\ ct_value' = s.value
  /\ ct_lock' = s.lock
  /\ ct_thr' = s.thr
  /\ ct_expected' = s.expected
  /\ ct_ops' = s.ops
  /\ UNCHANGED <<ct_initial, ct_state>>
  /\ UNCHANGED nonCtrVars

\* AtomicCounter(initial_value)
CtrInit ==
  /\ ct_initial \in -1..MaxInitial
  /\ ct_state = IF ArgumentRejected(ct_initial) THEN "raised" ELSE "constructed"
  /\ ct_value = IF ArgumentRejected(ct_initial) THEN 0 ELSE ct_initial
  /\ ct_lock = "free"
  /\ ct_thr = [t \in Threads |-> IdleThread]
  /\ ct_expected = ct_value
  /\ ct_ops = 0

CtrIdle == CtrInit /\ ct_initial = 0

\* a thread calls increment(return_value), add(amount, return_value) or
\* reset(amount): reset tests its argument before it takes the lock
CtrCall(t, op, amount, return_value) ==
  /\ ct_state = "constructed"
  /\ ct_thr[t].pc \in {"idle", "done", "raised"}
  /\ ct_ops < MaxCtrOps
  /\ op = "increment" => amount = 1
  /\ op = "reset" => ~return_value /\ amount <= MaxInitial
  /\ KBecomes([K EXCEPT
       !.ops = @ + 1,
       !.thr[t] = [IdleThread EXCEPT
                     !.op = op, !.amount = amount, !.return_value = return_value,
                     !.pc = IF op = "reset" /\ ArgumentRejected(amount)
                            THEN "raised" ELSE "acquire"]])

\* with self._lock: entry
CtrAcquire(t) ==
  /\ ct_thr[t].pc = "acquire"
  /\ LockIsFree(ct_lock)
  /\ KBecomes([K EXCEPT !.lock = t,
                        !.thr[t].pc = IF ct_thr[t].op = "reset" THEN "store" ELSE "load"])

\* the read of self._value and the sum; add raises when the sum is negative,
\* and leaving the with block releases the lock
CtrLoad(t) ==
  /\ ct_thr[t].pc = "load"
  /\ LET new_value == ct_value + ct_thr[t].amount
     IN  KBecomes(IF ct_thr[t].op = "add" /\ AddRejects(new_value)
                  THEN [K EXCEPT !.lock = "free", !.thr[t].pc = "raised"]
                  ELSE [K EXCEPT !.thr[t].new_value = new_value,
                                 !.thr[t].pc = "store"])

\* the assignment to self._value
CtrStore(t) ==
  /\ ct_thr[t].pc = "store"
  /\ LET v == IF ct_thr[t].op = "reset" THEN ct_thr[t].amount
              ELSE ct_thr[t].new_value
     IN  KBecomes([K EXCEPT
           !.value = v,
           !.expected = IF ct_thr[t].op = "reset" THEN v ELSE @ + ct_thr[t].amount,
           !.thr[t].written = v,
           !.thr[t].pc = "return"])

\* return self._value if return_value else None; the lock is released
CtrReturn(t) ==
  /\ ct_thr[t].pc = "return"
  /\ KBecomes([K EXCEPT
       !.lock = "free",
       !.thr[t].ret = IF ct_thr[t].return_value THEN <<ct_value>> ELSE None,
       !.thr[t].pc = "done"])

CtrNext ==
  \/ \E t \in Threads :
       \/ \E op \in CtrOps, amount \in -MaxAmount..MaxAmount,
             return_value \in BOOLEAN : CtrCall(t, op, amount, return_value)
       \/ CtrAcquire(t)
       \/ CtrLoad(t)
       \/ CtrStore(t)
       \/ CtrReturn(t)

\* --------------------------------------- KubeMQ endpoint: the tracked tasks
\* KubeMQClient._tasks, the background tasks send_message creates and stop();
\* one step runs from an await to the next.

MaxTasks == 3      \* send_message calls in a run

TaskIds == 1..MaxTasks

\* a task that has ended, either way
EndedTaskPcs == {"done", "cancelled"}

T == [is_connected |-> tk_is_connected, task |-> tk_task, thread |-> tk_thread,
      tasks |-> tk_tasks, cancel_requested |-> tk_cancel_requested,
      pending_tasks |-> tk_pending_tasks, stop_pc |-> tk_stop_pc]

TBecomes(s) ==
  /\ tk_is_connected' = s.is_connected
  /\ tk_task' = s.task
  /\ tk_thread' = s.thread
  /\ tk_tasks' = s.tasks
  /\ tk_cancel_requested' = s.cancel_requested
  /\ tk_pending_tasks' = s.pending_tasks
  /\ tk_stop_pc' = s.stop_pc
  /\ UNCHANGED nonTaskVars

\* after start(): connected, no task yet
TaskInit ==
  /\ tk_is_connected = TRUE
  /\ tk_task = [i \in TaskIds |-> "none"]
  /\ tk_thread = [i \in TaskIds |-> "none"]
  /\ tk_tasks = {}
  /\ tk_cancel_requested = {}
  /\ tk_pending_tasks = {}
  /\ tk_stop_pc = "idle"

TaskIdle == TaskInit

\* the last statements of stop(): self._tasks.clear(), _disconnect()
TaskStopFinish(s) ==
  [s EXCEPT !.tasks = {}, !.is_connected = FALSE, !.stop_pc = "returned"]

\* the task's done callback: self._tasks.discard
TaskEnds(s, i, how) == [s EXCEPT !.task[i] = how, !.tasks = @ \ {i}]

\* send_message: raises unless is_connected, else _create_tracked_task
TaskSendMessage(i) ==
  /\ tk_is_connected
  /\ tk_task[i] = "none"
  /\ \A j \in TaskIds : j < i => tk_task[j] # "none"
  /\ TBecomes([T EXCEPT !.task[i] = "created", !.tasks = @ \cup {i}])

\* the event loop runs the task for the first time: a cancelled task ends at
\* once, another one hands the broker call to a worker thread and awaits it
TaskFirstStep(i) ==
  /\ tk_task[i] = "created"
  /\ TBecomes(IF i \in tk_cancel_requested
              THEN TaskEnds(T, i, "cancelled")
              ELSE [T EXCEPT !.task[i] = "in_thread", !.thread[i] = "running"])

\* client.send_queues_message returns in its worker thread; the task, when
\* it still awaits the call, runs to its end
TaskThreadDone(i) ==
  /\ tk_thread[i] = "running"
  /\ TBecomes(IF tk_task[i] = "in_thread" /\ i \notin tk_cancel_requested
              THEN TaskEnds([T EXCEPT !.thread[i] = "finished"], i, "done")
              ELSE [T EXCEPT !.thread[i] = "finished"])

\* CancelledError is raised at the task's await; except Exception does not
\* catch it, and the worker thread goes on
TaskCancelled(i) ==
  /\ tk_task[i] = "in_thread"
  /\ i \in tk_cancel_requested
  /\ TBecomes(TaskEnds(T, i, "cancelled"))

\* stop(), up to its await of gather or its return
TaskStop ==
  /\ tk_stop_pc = "idle"
  /\ LET pending_tasks == {i \in tk_tasks : tk_task[i] \notin EndedTaskPcs}
         s == [T EXCEPT !.cancel_requested = @ \cup pending_tasks,
                        !.pending_tasks = pending_tasks]
     IN  TBecomes(IF pending_tasks # {} THEN [s EXCEPT !.stop_pc = "gathering"]
                  ELSE TaskStopFinish(s))

\* gather returns when every task of pending_tasks has ended
TaskStopGathered ==
  /\ tk_stop_pc = "gathering"
  /\ \A i \in tk_pending_tasks : tk_task[i] \in EndedTaskPcs
  /\ TBecomes(TaskStopFinish(T))

TaskNext ==
  \/ \E i \in TaskIds :
       \/ TaskSendMessage(i)
       \/ TaskFirstStep(i)
       \/ TaskThreadDone(i)
       \/ TaskCancelled(i)
  \/ TaskStop
  \/ TaskStopGathered

\* ----------------------------------------------------------- specifications

InitHealth == HealthInit /\ RetryIdle /\ BindingIdle /\ SupIdle /\ CfgIdle /\ EndIdle /\ RecIdle /\ MetIdle /\ AttIdle /\ CtrIdle /\ TaskIdle

SpecHealth == InitHealth /\ [][HealthNext]_vars

InitBinding == BindingInit /\ RetryIdle /\ HealthIdle /\ SupIdle /\ CfgIdle /\ EndIdle /\ RecIdle /\ MetIdle /\ AttIdle /\ CtrIdle /\ TaskIdle

SpecBinding == InitBinding /\ [][BindingNext]_vars

InitRetry == RetryInit /\ BindingIdle /\ HealthIdle /\ SupIdle /\ CfgIdle /\ EndIdle /\ RecIdle /\ MetIdle /\ AttIdle /\ CtrIdle /\ TaskIdle

SpecRetry == InitRetry /\ [][RetryNext]_vars

InitSup == SupInit /\ RetryIdle /\ BindingIdle /\ HealthIdle /\ CfgIdle /\ EndIdle /\ RecIdle /\ MetIdle /\ AttIdle /\ CtrIdle /\ TaskIdle

SpecSup == InitSup /\ [][SupNext]_vars

InitCfg == CfgInit /\ RetryIdle /\ BindingIdle /\ HealthIdle /\ SupIdle /\ EndIdle /\ RecIdle /\ MetIdle /\ AttIdle /\ CtrIdle /\ TaskIdle

SpecCfg == InitCfg /\ [][CfgNext]_vars

InitEnd == EndInit /\ RetryIdle /\ BindingIdle /\ HealthIdle /\ SupIdle /\ CfgIdle /\ RecIdle /\ MetIdle /\ AttIdle /\ CtrIdle /\ TaskIdle

SpecEnd == InitEnd /\ [][EndNext]_vars

InitRec == RecInit /\ RetryIdle /\ BindingIdle /\ HealthIdle /\ SupIdle /\ CfgIdle /\ EndIdle /\ MetIdle /\ AttIdle /\ CtrIdle /\ TaskIdle

SpecRec == InitRec /\ [][RecNext]_vars

InitMet == MetInit /\ RetryIdle /\ BindingIdle /\ HealthIdle /\ SupIdle /\ CfgIdle /\ EndIdle /\ RecIdle /\ AttIdle /\ CtrIdle /\ TaskIdle

SpecMet == InitMet /\ [][MetNext]_vars

InitAtt == AttInit /\ RetryIdle /\ BindingIdle /\ HealthIdle /\ SupIdle /\ CfgIdle /\ EndIdle /\ RecIdle /\ MetIdle /\ CtrIdle /\ TaskIdle

SpecAtt == InitAtt /\ [][AttNext]_vars

InitCtr == CtrInit /\ RetryIdle /\ BindingIdle /\ HealthIdle /\ SupIdle /\ CfgIdle /\ EndIdle /\ RecIdle /\ MetIdle /\ AttIdle /\ TaskIdle

SpecCtr == InitCtr /\ [][CtrNext]_vars

InitTask == TaskInit /\ RetryIdle /\ BindingIdle /\ HealthIdle /\ SupIdle /\ CfgIdle /\ EndIdle /\ RecIdle /\ MetIdle /\ AttIdle /\ CtrIdle

SpecTask == InitTask /\ [][TaskNext]_vars

\* ------------------------------------------------------------- properties

Range(seq) == {seq[i] : i \in DOMAIN seq}

RetryDone == rw_pc \in {"returned", "raised", "fallthrough"}

\* C4: a wrapper with max_retries = N around an operation that fails k times and
\* then succeeds returns the operation's value iff k < N, and then the operation
\* has been invoked exactly k+1 times and exactly k sleeps of delay_seconds each
\* have been made.
C4_ReturnsIffFewerFailuresThanAttempts ==
  LET k == LeadingFailures(rw_opFails)
  IN RetryDone =>
       /\ (rw_pc = "returned") <=> (k < rw_max_retries)
       /\ rw_pc = "returned" =>
            /\ rw_invocations = k + 1
            /\ rw_sleeps = k
            /\ rw_slept = k * rw_delay_seconds

\* C4 case: two failures, then success on the third of three attempts.
C4_ReturnedAfterTwoFailures ==
  /\ rw_pc = "returned"
  /\ LeadingFailures(rw_opFails) = 2
  /\ rw_invocations = 3 /\ rw_sleeps = 2 /\ rw_delay_seconds = MaxDelay

\* C5: a wrapper with max_retries = N around an operation that fails on N
\* consecutive invocations invokes it exactly N times, sleeps exactly N-1 times
\* (delay_seconds each; never before the first invocation, never after the last)
\* and raises the error of the N-th invocation.
C5_ExhaustedAfterExactlyNAttempts ==
  LET k == LeadingFailures(rw_opFails)
  IN k >= rw_max_retries =>
       /\ rw_invocations = 0 => rw_sleeps = 0
       /\ rw_sleeps <= rw_invocations
       /\ RetryDone =>
            /\ rw_pc # "returned"
            /\ rw_invocations = rw_max_retries
            /\ rw_sleeps = rw_max_retries - 1
            /\ rw_slept = (rw_max_retries - 1) * rw_delay_seconds
            /\ rw_raised = rw_max_retries

\* C5 case: three attempts, all failed, the third error raised.
C5_RaisedAfterThreeFailures ==
  /\ rw_pc = "raised" /\ rw_max_retries = 3
  /\ rw_invocations = 3 /\ rw_sleeps = 2 /\ rw_raised = 3

\* C6: with disable_retry set, every received message leads to exactly one call
\* of target.send_message, the callback never sleeps for a retry, and the error
\* the poll loop catches is the one that call raised.
C6_DisabledRetrySendsOnce ==
  b_disable_retry =>
    /\ cbPc # "retry_sleep"
    /\ deliveries > 0 => cb_sendCalls = 1
    /\ cb_caught # NoError => (cb_caught = lastSendError /\ cb_caught.call = 1)

\* C6 case: retries disabled, the one send raised and the poll loop caught it.
C6_DisabledRetryErrorCaught ==
  /\ b_disable_retry /\ b_max_retries > 1
  /\ \E m \in Msgs : cbOutcome[m] = "raised"
  /\ cb_caught # NoError /\ cb_sendCalls = 1

\* The calls before position i of the trace.
Before(tr, i) == {tr[j] : j \in 1..(i - 1)}

\* C8: Binding.start calls source.start only after target.start has returned,
\* and source.poll only after both starts have returned; when target.start
\* raises, Binding.start has failed and source.start and source.poll are never
\* called.
C8_StartIsTargetThenSourceThenPoll ==
  /\ \A i \in DOMAIN b_trace :
       /\ b_trace[i] = "source.start" => "target.started" \in Before(b_trace, i)
       /\ b_trace[i] \in {"source.poll", "source.poll_raised"} =>
            {"target.started", "source.started"} \subseteq Before(b_trace, i)
  /\ "target.start_raised" \in Range(b_trace) =>
       /\ b_pc = "start_failed"
       /\ pollPc = "none"
       /\ Range(b_trace) \cap {"source.start", "source.poll", "source.poll_raised"} = {}

\* C8 case: both endpoints started in order and the poll task was created.
C8_StartedInOrder ==
  /\ Len(b_trace) >= 5
  /\ SubSeq(b_trace, 1, 5) = <<"target.start", "target.started", "source.start",
                               "source.started", "source.poll">>
  /\ pollPc # "none"

\* C10: Binding.is_healthy returns true iff both endpoints are set and both
\* health queries answered true; a missing endpoint or a raising query makes it
\* return false; no exception leaves the call.
C10_HealthyIffBothEndpointsHealthy ==
  h_pc = "returned" =>
    /\ h_result \in {"true", "false"}
    /\ (h_result = "true") <=>
         (h_source /\ h_target /\ h_src_seen = "true" /\ h_tgt_seen = "true")
    /\ (~h_source \/ ~h_target \/ h_src_seen = "raise" \/ h_tgt_seen = "raise") =>
         h_result = "false"
    /\ ~h_escaped

\* C10 case: both endpoints set and healthy, the call returned true.
C10_ReturnedHealthy ==
  h_pc = "returned" /\ h_result = "true" /\ h_source /\ h_target

\* The callback awaited with message m (its latest delivery) has returned or raised.
CallbackCompleted(m) == cbOutcome[m] \in {"ok", "raised"}

\* Message m has been acknowledged to the source broker: the KubeMQ source issued
\* the ack; an IBM MQ source has no ack call, there the message counts as
\* acknowledged when the broker has removed it for good.
Acknowledged(m) ==
  IF SourceKind(b_type) = "kubemq" THEN dispIssued[m] = "ack"
  ELSE msgState[m] = "removed"

\* Message m has been rejected to the source broker: the KubeMQ source issued the
\* reject; for an IBM MQ source, the broker has the message again.
Rejected(m) ==
  IF SourceKind(b_type) = "kubemq" THEN dispIssued[m] = "reject"
  ELSE msgState[m] = "queued"

\* C1: for every message whose callback has completed, the message is
\* acknowledged to the source iff the callback returned and rejected iff it
\* raised, and it has exactly one of the two dispositions.
C1_AckIffCallbackReturned ==
  \A m \in Msgs : CallbackCompleted(m) =>
    /\ Acknowledged(m) <=> cbOutcome[m] = "ok"
    /\ Rejected(m) <=> cbOutcome[m] = "raised"
    /\ Acknowledged(m) # Rejected(m)

\* Nothing is in progress for message m any more: no callback awaited with it by
\* a live poll task, no background send task, no broker call on a worker thread.
Settled(m) ==
  /\ cur = m => pollPc = "cancelled"
  /\ cbOutcome[m] = "pending" => pollPc = "cancelled"
  /\ sendTask[m] \notin {"created", "waiting"}
  /\ sendThread[m] # "running"
  /\ orphanPut # m

\* C2: a message that the source broker has removed for good, and for which
\* nothing is in progress any more, has been accepted by the target broker at
\* least once.
C2_RemovedFromSourceImpliesAcceptedByTarget ==
  \A m \in Msgs : (msgState[m] = "removed" /\ Settled(m)) => m \in Range(tgtLog)

\* C3: a message whose callback raised (the sink failed after its attempts) is
\* still held by the source broker for redelivery, and the poll loop goes on:
\* unless a stop was requested, the poll task has not ended.
C3_FailedMessageStaysRedeliverable ==
  \A m \in Msgs : cbOutcome[m] = "raised" =>
    /\ msgState[m] \in {"queued", "inflight"}
    /\ (~stop_event /\ b_pc = "running") => ~PollTaskEnded(pollPc)

\* The payloads appear in the order of their numbers, the order in which the
\* source hands them out.
InDeliveryOrder(log) == \A i, j \in DOMAIN log : i < j => log[i] <= log[j]

\* C7: as long as no error has happened, the target broker has accepted the
\* payloads in the order in which the source delivered them.
C7_TargetSeesDeliveryOrder ==
  noErrors => InDeliveryOrder(tgtLog)

\* C9: once target.stop() has been called by Binding.stop, the source's poll
\* task has ended.
C9_PollEndedBeforeTargetStop ==
  "target.stop" \in Range(b_trace) => PollTaskEnded(pollPc)

\* C11: when Bindings.start has returned or raised, every binding's start has
\* reached polling or failed; a binding whose endpoints start reaches polling
\* whatever the other bindings do; and Bindings.start returns iff none failed.
C11_StartCompletesAfterAllBindings ==
  sup_pc \in {"returned", "raised"} =>
    /\ \A b \in BindingIds : sup_binding[b] \in {"polling", "failed"}
    /\ \A b \in BindingIds : sup_outcome[b] = "ok" => sup_binding[b] = "polling"
    /\ (sup_pc = "raised") <=> (\E b \in BindingIds : sup_binding[b] = "failed")

\* C11 case: the first binding failed to start, Bindings.start raised, and the
\* last binding is polling.
C11_RaisedAfterOthersStarted ==
  /\ sup_pc = "raised"
  /\ sup_binding[1] = "failed"
  /\ sup_binding[MaxBindings] = "polling"

\* The names of the list are all given and pairwise different.
NamesGivenAndDistinct(list) ==
  /\ \A i \in DOMAIN list : list[i].name # "MISSING"
  /\ \A i, j \in DOMAIN list : i # j => list[i].name # list[j].name

\* C12: load followed by init succeeds exactly for the lists in which every
\* binding has a name, no two bindings share a name, every direction tag is
\* supported and every source and target queue_name is non-empty.
C12_InitSucceedsIffAllBindingsValid ==
  cfg_pc \in {"load_failed", "init_failed", "initialised"} =>
    ((cfg_pc = "initialised") <=>
       /\ NamesGivenAndDistinct(cfg_list)
       /\ \A i \in DOMAIN cfg_list :
            /\ cfg_list[i].type \in {"kubemq_to_ibm_mq", "ibm_mq_to_kubemq"}
            /\ cfg_list[i].source_queue # ""
            /\ cfg_list[i].target_queue # "")


\* C13: every change of an endpoint's recorded connection state, whatever
\* sequence of start, stop, poll error handling, send, reconnect and health
\* check produced it, is one of the seven pairs of the connection state machine.
AllowedStateChanges ==
  {<<"disconnected", "connecting">>, <<"connecting", "connected">>,
   <<"connecting", "disconnected">>, <<"connected", "disconnected">>,
   <<"disconnected", "reconnecting">>, <<"reconnecting", "connected">>,
   <<"reconnecting", "disconnected">>}

C13_StateChangesFollowStateMachine ==
  \A i \in DOMAIN e_changes : e_changes[i] \in AllowedStateChanges

\* C14: at every observation point the recorded connection state of an
\* endpoint is Connected exactly when its is_connected flag is true.
C14_RecordedStateMatchesFlag == (e_state = "connected") <=> e_is_connected

\* C15: when establishing the session fails inside start(), the call raises
\* and leaves is_connected false, the recorded state Disconnected and no
\* health-check or heartbeat task created.
C15_FailedStartLeavesDisconnected ==
  (e_start = "raised" /\ NotStopped) =>
    /\ ~e_is_connected
    /\ e_state = "disconnected"
    /\ \A m \in Monitors : e_monitor[m] = "none"

\* C16: once stop() has returned, the endpoint is Disconnected and nothing
\* started before the stop connects it again.
C16_StaysDisconnectedAfterStop ==
  (e_stop_log # <<>> /\ e_stop_pc = "idle") =>
    (~e_is_connected /\ e_state = "disconnected")

C18_AtMostOnePoller == Cardinality({p \in Pollers : e_poll[p] \in ActivePollPcs}) <= 1

\* C19: a send_message that finds the endpoint not connected makes exactly one
\* reconnection attempt, and then either fails with a connection error or has
\* sent the payload once.
C19_SendReconnectsOnce ==
  (e_send.pc = "done" /\ ~e_send.began_connected) =>
    /\ e_send.reconnects = 1
    /\ \/ e_send.result = "ok" /\ e_send.puts = 1
       \/ e_send.result = "connection_error" /\ e_send.puts = 0

\* C20: a send whose put failed with a reason classified Connection or
\* Shutdown is followed by one reconnect attempt (and by one more put of the
\* payload when that attempt succeeds).
C20_ConnectionErrorOnSendReconnects ==
  (e_send.pc = "done" /\ ClassifyError(e_send.put_error) \in {"connection", "shutdown"}) =>
    /\ e_send.error_reconnects = 1
    /\ e_send.result = "ok" => e_send.puts = 1

\* C21: when a running poll loop observes a connection error, the endpoint
\* becomes Disconnected (so that the following iterations reconnect it).
ConnectionErrorOutcomes ==
  {r \in Reasons : ClassifyError(r) = "connection"} \cup
  {x \in KubeErrors : KubeClassifyError(x) = "connection"}

C21_ConnectionErrorDisconnects ==
  [][\A p \in Pollers : \A outcome \in ConnectionErrorOutcomes :
       EndPollReceived(p, outcome) => ~e_is_connected']_vars

\* C24: when the liveness probe made by a monitor task fails while the endpoint
\* is connected and not stopped, the task starts a reconnect attempt.
C24_FailedProbeTriggersReconnect ==
  [][\A m \in Monitors :
       (e_is_connected /\ ~e_stop_event /\ EndMonitorWake(m, FALSE)) =>
         e_reconnect_tasks' = e_reconnect_tasks + 1]_vars

\* C25: every health query leaves is_connected equal to the answer of the
\* liveness probe.
C25_HealthQueryReconcilesState ==
  [][\A active \in BOOLEAN : EndCheckHealth(active) => (e_is_connected' = active)]_vars

\* C22: every reconnect attempt adds one to reconnection_attempts_total, and
\* every failed one adds one to reconnection_failures_total and leaves the
\* endpoint disconnected.
C22_ReconnectCountersMatchAttempts ==
  /\ rc_attempts_total = rc_made
  /\ rc_failures_total = rc_failed
  /\ (rc_streak > 0 => ~rc_is_connected)

NonNull(timestamps) == timestamps \ {NoTime}

IsLatestOf(result, timestamps) ==
  IF NonNull(timestamps) = {} THEN result = NoTime
  ELSE /\ result \in NonNull(timestamps)
       /\ \A ts \in NonNull(timestamps) : result[1] >= ts[1]

\* C26: what BindingMetricsCollector.get_metrics returns, after any sequence
\* of track_* operations on the two endpoint collectors: the received count,
\* volume and errors are the source collector's, the sent count, volume and
\* errors are the target collector's, the reconnection attempts and failures
\* are the sums over both endpoints, and each reconnection timestamp is null
\* if both endpoints' are null, else the largest of the non-null ones.
C26_BindingRollUp ==
  \A b \in MetBindings :
    LET source == m_coll[b]["source"]
        target == m_coll[b]["target"]
        metrics == BindingGetMetrics(b)
    IN /\ metrics.messages_received_total = source.messages_received_total
       /\ metrics.messages_received_volume = source.messages_received_volume
       /\ metrics.errors_received_total = source.errors_received_total
       /\ metrics.messages_sent_total = target.messages_sent_total
       /\ metrics.messages_sent_volume = target.messages_sent_volume
       /\ metrics.errors_sent_total = target.errors_sent_total
       /\ metrics.reconnection_attempts_total =
            source.reconnection_attempts_total + target.reconnection_attempts_total
       /\ metrics.reconnection_failures_total =
            source.reconnection_failures_total + target.reconnection_failures_total
       /\ IsLatestOf(metrics.last_reconnection_timestamp,
                     {source.last_reconnection_time, target.last_reconnection_time})
       /\ IsLatestOf(metrics.last_reconnection_error_timestamp,
                     {source.last_reconnection_error_time,
                      target.last_reconnection_error_time})

\* a binding whose target reconnected after its source did
C26_BothEndpointsReconnected ==
  \E b \in MetBindings :
    /\ m_coll[b]["source"].last_reconnection_time # NoTime
    /\ m_coll[b]["target"].last_reconnection_time # NoTime
    /\ m_coll[b]["source"].last_reconnection_time[1]
         < m_coll[b]["target"].last_reconnection_time[1]

\* what a registered binding contributes to a system counter
Contribution(b, counter) ==
  IF b \in DOMAIN m_binding_collectors
  THEN BindingGetMetrics(m_binding_collectors[b])[counter]
  ELSE 0

\* C27: what SystemMetricsCollector.get_metrics returns, after any sequence of
\* add_binding, remove_binding and track_* operations: each system counter is
\* the sum of that counter over the bindings registered now, bindings_total is
\* their number, the bindings map holds exactly their names, and each system
\* timestamp is the latest non-null timestamp among them (null if none).
C27_SystemRollUp ==
  LET metrics == SystemGetMetrics
      registered == DOMAIN m_binding_collectors
      sources(field) == {m_coll[m_binding_collectors[n]]["source"][field] : n \in registered}
      targets(field) == {m_coll[m_binding_collectors[n]]["target"][field] : n \in registered}
  IN /\ \A counter \in CounterNames :
          metrics.system[counter] = Contribution("b1", counter) + Contribution("b2", counter)
     /\ metrics.system.bindings_total = Cardinality(registered)
     /\ DOMAIN metrics.bindings = registered
     /\ \A n \in registered : metrics.bindings[n] = BindingGetMetrics(m_binding_collectors[n])
     /\ IsLatestOf(metrics.system.last_message_received_timestamp,
                   sources("last_message_received_time"))
     /\ IsLatestOf(metrics.system.last_message_sent_timestamp,
                   targets("last_message_sent_time"))
     /\ IsLatestOf(metrics.system.last_error_received_timestamp,
                   sources("last_error_received_time"))
     /\ IsLatestOf(metrics.system.last_error_sent_timestamp,
                   targets("last_error_sent_time"))
     /\ IsLatestOf(metrics.system.last_reconnection_timestamp,
                   sources("last_reconnection_time") \cup targets("last_reconnection_time"))
     /\ IsLatestOf(metrics.system.last_reconnection_error_timestamp,
                   sources("last_reconnection_error_time")
                     \cup targets("last_reconnection_error_time"))

\* one binding is registered, the other one has counted a message and is not
C27_UnregisteredBindingHasTraffic ==
  /\ Cardinality(DOMAIN m_binding_collectors) = 1
  /\ \E b \in MetBindings \ DOMAIN m_binding_collectors :
       m_coll[b]["source"].messages_received_total > 0
  /\ \E b \in DOMAIN m_binding_collectors :
       m_coll[b]["source"].messages_received_total > 0

\* a timestamp that was set is never replaced by an earlier one or by null
NotEarlier(before, after) ==
  before = NoTime \/ (after # NoTime /\ after[1] >= before[1])

C29_SendAttemptCountedOnce ==
  [][\A b \in MetBindings, message_size \in 1..MaxSize,
        duration_ms \in 0..MaxDuration, outcome \in SendOutcomes :
       MetSend(b, message_size, duration_ms, outcome) =>
         LET before == m_coll[b]["target"]
             after == m_coll'[b]["target"]
         IN IF outcome = "ok"
            THEN /\ after.messages_sent_total = before.messages_sent_total + 1
                 /\ after.errors_sent_total = before.errors_sent_total
            ELSE /\ after.errors_sent_total = before.errors_sent_total + 1
                 /\ after.messages_sent_total = before.messages_sent_total
                 /\ after.messages_sent_volume = before.messages_sent_volume]_vars

\* C30: for every binding type, a message of L bytes that the source delivers
\* and the target accepts at the first attempt adds exactly 1 to the binding's
\* messages_received_total and messages_sent_total and exactly L to its
\* messages_received_volume and messages_sent_volume.
C30_VolumesGrowByLength ==
  [][\A b \in MetBindings, L \in 1..MaxSize, duration_ms \in 0..MaxDuration :
       /\ MetReceive(b, L, duration_ms) =>
            /\ BindingGetMetrics(b)'.messages_received_total
                 = BindingGetMetrics(b).messages_received_total + 1
            /\ BindingGetMetrics(b)'.messages_received_volume
                 = BindingGetMetrics(b).messages_received_volume + L
       /\ MetSend(b, L, duration_ms, "ok") =>
            /\ BindingGetMetrics(b)'.messages_sent_total
                 = BindingGetMetrics(b).messages_sent_total + 1
            /\ BindingGetMetrics(b)'.messages_sent_volume
                 = BindingGetMetrics(b).messages_sent_volume + L]_vars

\* C38: for every max_retries >= 1 and every pattern of failures, one call of
\* the wrapper invokes the operation at least once and at most max_retries
\* times, and the statements after the loop are never reached.
C38_LoopNeverFallsThrough ==
  /\ rw_pc # "fallthrough"
  /\ rw_invocations <= rw_max_retries
  /\ rw_pc \in {"returned", "raised"} => rw_invocations >= 1

\* the wrapper gave up after the largest number of attempts, having slept
\* before each retry
C38_GaveUpInsideTheLoop ==
  /\ rw_pc = "raised" /\ rw_max_retries = MaxRetries
  /\ rw_invocations = MaxRetries /\ rw_attempt = MaxRetries

\* C36: every reason code of SHUTDOWN_ERRORS is classified as Shutdown by
\* classify_error, so that a get of the poll loop that fails with it takes the
\* Shutdown branch: the connection is marked broken, the client goes
\* Disconnected and the loop sleeps the longer delay before its next turn.
C36_ShutdownReasonsTakeShutdownBranch ==
  [][\A p \in Pollers : \A reason \in SHUTDOWN_ERRORS :
       (e_kind = "ibm" /\ EndPollReceived(p, reason)) =>
         /\ ClassifyError(reason) = "shutdown"
         /\ e_poll'[p] = "sleeping"
         /\ e_broken'[p]
         /\ ~e_is_connected']_vars

\* stop() has been called on the endpoint
StopCalled == e_stop_event \/ e_stop_pc # "idle" \/ Len(e_stop_log) > 0

\* poll tasks that are over
EndedPollPcs == {"done", "cancelled", "raised"}

\* C37: once started, a poll task ends only because the endpoint was stopped:
\* no receive error of any class, no callback failure, no invalid mode setting
\* and no reconnect failure ends the task or raises out of its loop.
C37_PollTaskEndsOnlyOnStop ==
  \A p \in Pollers : e_poll[p] \in EndedPollPcs => StopCalled

\* a call of stop() has returned
StopReturned == e_stop_pc = "idle" /\ Len(e_stop_log) > 0

\* C35: after stop() on an endpoint for which poll() was called the poll task
\* eventually terminates, and whenever a poll task has ended (by loop exit, by
\* an error or by cancellation) is_polling is false. Stated for one poll task;
\* the first part as what termination needs once stop() has returned: a poll
\* task that is not over yet finds the stop event set.
C35_StopEndsPollingAndClearsFlag ==
  (\A q \in Pollers : q # 1 => e_poll[q] = "none") =>
    /\ (StopReturned /\ e_poll[1] \in ActivePollPcs \cup {"created"}) => e_stop_event
    /\ e_poll[1] \in EndedPollPcs => ~e_is_polling

\* C40: for an IBMMQClient, every broker session opened by _connect is closed
\* before a later _connect opens another one, and no session is open after
\* stop() has returned; also when the poll loop or a failed probe has set
\* is_connected to false before the reconnect or the stop.
C40_SessionsAreClosed ==
  [][/\ (e_kind = "ibm" /\ StopReturned') => ~e_session'
     /\ (e_kind = "ibm" /\
         \/ \E p \in Pollers : \E ok \in BOOLEAN : EndPollReconnectDone(p, ok)
         \/ \E ok \in BOOLEAN : \E valid \in BOOLEAN : EndSendReconnectDone(ok, valid))
        => (e_session => e_is_connected)]_vars

\* the _reconnect calls in progress: asleep between their two halves
ReconnectsInProgress ==
  Cardinality({p \in Pollers : e_poll[p] = "reconnecting"})
    + (IF e_send.pc \in {"reconnect_first", "reconnect_probe", "reconnect_resend"}
       THEN 1 ELSE 0)

\* C33: status transitions of one endpoint are serialized: no two _reconnect
\* calls of the same endpoint are in progress at the same time, whoever of the
\* poller, a sender and the monitor tasks acts on the endpoint.
C33_AtMostOneReconnectInProgress ==
  (\A q \in Pollers : q # 1 => e_poll[q] = "none") => ReconnectsInProgress <= 1

\* C39: for an IBM MQ endpoint, at every await, is_connected implies
\* reconnect_attempts = 0, and the counter equals the number of reconnect
\* attempts begun since the endpoint was last connected, whatever the
\* interleaving of the poll loop, the sender, the monitor's task and health
\* checks.
C39_ConnectedMeansNoAttempts ==
  /\ ra_is_connected => ra_reconnect_attempts = 0
  /\ ra_reconnect_attempts = ra_since

C39_ConnectedWhileCallerBacksOff ==
  /\ ra_is_connected
  /\ ra_pc["poller"] = "backoff"
  /\ ra_pc["sender"] = "backoff"

\* C31: the value of an AtomicCounter is never negative; an add whose sum
\* would be negative and a reset to a negative value raise ValueError and
\* leave the value as it was; a negative initial value makes the constructor
\* raise.
C31_CounterNeverNegative ==
  [][/\ (ct_initial < 0) = (ct_state = "raised")
     /\ ct_value >= 0 /\ ct_value' >= 0
     /\ \A t \in Threads :
          /\ (ct_thr[t].pc # "raised" /\ ct_thr'[t].pc = "raised") =>
               ct_value' = ct_value
          /\ (CtrLoad(t) /\ ct_thr[t].op = "add" /\ ct_value + ct_thr[t].amount < 0) =>
               ct_thr'[t].pc = "raised"
          /\ \A amount \in -MaxAmount..-1 :
               CtrCall(t, "reset", amount, FALSE) => ct_thr'[t].pc = "raised"]_vars

C31_AddAndResetRaised ==
  /\ ct_thr["t1"].pc = "raised" /\ ct_thr["t1"].op = "add"
  /\ ct_thr["t2"].pc = "raised" /\ ct_thr["t2"].op = "reset"
  /\ ct_value = 0

\* C32: with threads calling increment and add concurrently no update is
\* lost, the value being the initial (or last reset) value plus every amount
\* stored since, and a call made with return_value=True returns the value its
\* own store wrote.
C32_NoLostUpdate ==
  /\ (\A t \in Threads : ct_thr[t].pc \notin {"load", "store", "return"}) =>
       ct_value = ct_expected
  /\ \A t \in Threads :
       ct_thr[t].pc = "done" =>
         ct_thr[t].ret = IF ct_thr[t].return_value THEN <<ct_thr[t].written>> ELSE None

C32_BothThreadsUpdated ==
  /\ ct_thr["t1"].pc = "done" /\ ct_thr["t1"].op = "add" /\ ct_thr["t1"].return_value
  /\ ct_thr["t2"].pc = "done" /\ ct_thr["t2"].op = "increment" /\ ct_thr["t2"].return_value
  /\ ct_thr["t1"].ret # ct_thr["t2"].ret
  /\ ct_value = ct_initial + 2

\* C34: once KubeMQClient.stop() has returned, every task created through
\* _create_tracked_task has ended and no broker call of such a task is still
\* running or still to come, a task created while stop awaited the
\* cancellations included.
C34_NoTaskSurvivesStop ==
  tk_stop_pc = "returned" =>
    \A i \in TaskIds : /\ tk_task[i] \in EndedTaskPcs \cup {"none"}
                       /\ tk_thread[i] # "running"

==============================================================================
